---- MODULE Spec2Model ----
(***************************************************************************)
(* A model of the notary client repository (client package: Initialize,    *)
(* AddTarget, Publish, validateRoot, bootstrapClient, bootstrapRepo) and   *)
(* of the stores it talks to: the remote metadata store, the local         *)
(* metadata cache, the changelist, the certificate stores and the root     *)
(* key store.                                                              *)
(***************************************************************************)
EXTENDS Integers, Sequences, FiniteSets, TLC

(***************************************************************************)
(* Bounds of the model.                                                    *)
(***************************************************************************)
\* longest changelist AddTarget is allowed to build
MaxChanges == 2
\* longest list of root-role key ids drawn for validateRoot
MaxKeyIDs == 2
\* the highest version the remote serves a role at
MaxVersion == 3

(***************************************************************************)
(* Values.                                                                 *)
(***************************************************************************)
\* the error value of a call that succeeded
Nil == "nil"
\* a target name the targets body does not hold
Absent == "absent"

GUN == "example.com/app"
Guns == {GUN, "attacker.example"}
TargetNames == {"a", "b"}
\* a target's {length, hashes}, as one opaque value
Metas == {"m1"}
Passphrases == {"p1", "p2"}
\* the passphrase the caller protects the root key with
KeyPassphrases == {"p1"}

\* the key ids a root body may list for the root role
KeyIds == {"k1", "k2", "k3", "k4", "k5"}
\* the fingerprints of their leaf certificates
Fingerprints == {"f1", "f2", "f3", "f4"}
CAs == {"ca1"}

\* The public material of each key, a PEM block: whether its bytes parse as an
\* X.509 certificate and, if so, the leaf's fingerprint, CommonName and issuer.
CertOf(k) ==
    CASE k = "k1" -> [parses |-> TRUE,  fp |-> "f1", cn |-> GUN,                issuer |-> "self"]
      [] k = "k2" -> [parses |-> TRUE,  fp |-> "f2", cn |-> "attacker.example", issuer |-> "self"]
      [] k = "k3" -> [parses |-> TRUE,  fp |-> "f3", cn |-> GUN,                issuer |-> "ca1"]
      [] k = "k4" -> [parses |-> TRUE,  fp |-> "f4", cn |-> "attacker.example", issuer |-> "ca1"]
      [] OTHER    -> [parses |-> FALSE, fp |-> "-",  cn |-> "-",                issuer |-> "-"]

\* the key of the certificate Initialize generates for the caller's root key
RootCertKey == "k1"

Range(s) == {s[i] : i \in 1..Len(s)}

VARIABLES
    remote,            \* the remote store: role -> role file
    cache,             \* r.fileStore, the local metadata cache: role -> role file
    changelist,        \* the changelist directory of the GUN: a sequence of entries
    certificateStore,  \* r.certificateStore: fingerprints of the pinned certificates
    caStore,           \* r.caStore: the CAs of the local CA store
    rootKeyStore,      \* r.rootKeyStore: the encrypted root key and its link
    tufRepo,           \* r.tufRepo, the in-memory role graph
    pc,                \* the position of the running Publish ("idle": no call runs, "done": a call has returned)
    pub,               \* the running (or last) Publish: updateRoot and the history of the call
    local,             \* the role files the running Publish holds in its locals
    ret,               \* what the last operation returned
    cause,             \* the error the failing step of the last operation raised
    vin,               \* validateRoot alone: its inputs
    vout               \* validateRoot alone: its outputs

repoVars == <<remote, cache, changelist, certificateStore, caStore, rootKeyStore,
              tufRepo, pc, pub, local, ret, cause>>
validateVars == <<vin, vout>>
vars == <<remote, cache, changelist, certificateStore, caStore, rootKeyStore,
          tufRepo, pc, pub, local, ret, cause, vin, vout>>

(***************************************************************************)
(* Role files. A stored file is a record with a kind: "none" (no file),    *)
(* "malformed" (bytes that do not parse) or the role it holds.             *)
(***************************************************************************)
NoFile == [kind |-> "none"]
MalformedFile == [kind |-> "malformed"]

\* a signed root: the key ids of the root role, the key ids whose signature
\* over the body verifies, and whether the present time is within the
\* near-expiry window of its expiry
RootFile(keyids, sigs, near) ==
    [kind |-> "root", keyids |-> keyids, sigs |-> sigs, nearExp |-> near]

EmptyBody == [n \in TargetNames |-> Absent]

TargetsFile(body) == [kind |-> "targets", body |-> body]

\* a snapshot records the content of the targets file it was made for
SnapshotFile(tbody) == [kind |-> "snapshot", tbody |-> tbody]

\* a role file as the remote serves it at version v, and the version of a
\* role file (0: the file carries none, or there is no file)
Versioned(f, v) == [ver |-> v] @@ f
VersionOf(f) == IF "ver" \in DOMAIN f THEN f.ver ELSE 0

\* what signing makes of the version: a role file that carries a version is
\* signed again at the next version
Resigned(old, new) ==
    IF "ver" \in DOMAIN old THEN Versioned(new, old.ver + 1) ELSE new

IsFile(f) == f.kind \notin {"none", "malformed"}

NoFiles == [root |-> NoFile, targets |-> NoFile, snapshot |-> NoFile]

\* tuf.NewTufRepo: a role graph with no role set
NewTufRepo ==
    [root |-> NoFile, rootDirty |-> FALSE, targets |-> NoFile,
     targetsDirty |-> FALSE, snapshot |-> NoFile]

\* root, targetsJSON, snapshotJSON, rootJSON of Publish before they are assigned
NoLocal == [root |-> NoFile, targetsJSON |-> NoFile, snapshotJSON |-> NoFile,
            rootJSON |-> NoFile, name |-> Nil]

\* updateRoot as Publish starts, and the history of the call: the PUTs issued
\* in order and whether the last of them failed, the calls of getPass, the
\* steps taken, the changelist as it was at the call; for ListTargets and
\* GetTargetByName, the fetches that succeeded and the version of targets in
\* the role graph as the call starts
NewPub(cl) ==
    [updateRoot |-> FALSE,
     puts |-> <<>>, putFailed |-> FALSE,
     passCalls |-> 0, passErr |-> FALSE,
     notFound |-> FALSE, bootFail |-> FALSE, loadedCache |-> FALSE,
     applied |-> FALSE, replayed |-> 0, nearOrDirty |-> FALSE,
     clAtCall |-> cl,
     rootFetched |-> FALSE, rolesFetched |-> FALSE,
     trusted |-> VersionOf(tufRepo.targets)]

\* what a call hands back besides its error: nothing, the list of ListTargets,
\* the target of GetTargetByName
NoVal == [kind |-> "none"]
TargetList(body) ==
    [kind |-> "list",
     targets |-> {[name |-> n, meta |-> body[n]] : n \in {m \in DOMAIN body : body[m] # Absent}}]
TargetVal(name, meta) == [kind |-> "target", name |-> name, meta |-> meta]

NoRet == [op |-> "none", err |-> Nil, arg |-> Nil, val |-> NoVal]

(***************************************************************************)
(* The root verifier.                                                      *)
(***************************************************************************)
\* trustmanager.Verify: the leaf chains to a CA of the CA store and its
\* CommonName / DNS name is the GUN
Verify(ca, gun, cert) == cert.issuer \in ca /\ cert.cn = gun

\* signed.VerifyRoot(root, 0, certs, 1): at least one signature that verifies
\* was made by a key of certs
VerifyRoot(root, certs) ==
    IF root.sigs \cap certs = {} THEN "ErrRoleThreshold" ELSE Nil

\* a pinned test that looks the fingerprint up and leaves the CommonName out
PinnedByFingerprint(leafCert, cs, gun) == leafCert.fp \in cs

\* the exact-match test of validateRoot: GetCertificateByFingerprint(leafID)
\* finds the certificate and the leaf's CommonName is the GUN
Pinned(leafCert, cs, gun) == leafCert.fp \in cs /\ leafCert.cn = gun

\* One pass of validateRoot's loop over rootSigned.Roles["root"].KeyIDs, from
\* index i on: the keys of the certs map it builds.
RECURSIVE validateRootLoop(_, _, _, _, _, _)
validateRootLoop(keyids, i, certs, cs, ca, gun) ==
    IF i > Len(keyids) THEN certs
    ELSE LET fingerprint == keyids[i]
             leafCert    == CertOf(fingerprint)
             certs1      == IF Pinned(leafCert, cs, gun)
                            THEN certs \cup {fingerprint} ELSE certs
             certs2      == IF Verify(ca, gun, leafCert)
                            THEN certs1 \cup {fingerprint} ELSE certs1
         IN  IF ~leafCert.parses
             THEN validateRootLoop(keyids, i + 1, certs, cs, ca, gun)
             ELSE validateRootLoop(keyids, i + 1, certs2, cs, ca, gun)

\* a validateRoot that checks the signatures against the keys the root lists
\* for its own root role, not against the certs map
validateRootAgainstListedKeys(root, cs, ca, gun) ==
    LET certs == validateRootLoop(root.keyids, 1, {}, cs, ca, gun)
    IN  IF Cardinality(certs) < 1
        THEN [err |-> "UntrustedRoot", certs |-> certs]
        ELSE [err |-> VerifyRoot(root, Range(root.keyids)), certs |-> certs]

\* validateRoot(root) of a repository with certificate store cs, CA store ca
\* and GUN gun: the error it returns and the certs map it built
validateRoot(root, cs, ca, gun) ==
    LET certs == validateRootLoop(root.keyids, 1, {}, cs, ca, gun)
    IN  IF Cardinality(certs) < 1
        THEN [err |-> "UntrustedRoot", certs |-> certs]
        ELSE [err |-> VerifyRoot(root, certs), certs |-> certs]

(***************************************************************************)
(* Helpers of Publish.                                                     *)
(***************************************************************************)
\* nearExpiry(r.tufRepo.Root)
nearExpiry(root) == root.nearExp

\* an applier whose create takes a target out again that is already there
\* with the same content
applyChangeToggling(body, c) ==
    IF c.scope # "targets" THEN body
    ELSE IF c.action \in {"create", "update"} /\ body[c.key] # c.payload
         THEN [body EXCEPT ![c.key] = c.payload]
         ELSE [body EXCEPT ![c.key] = Absent]

\* one changelist entry applied to a targets body
applyChange(body, c) ==
    IF c.scope # "targets" THEN body
    ELSE IF c.action \in {"create", "update"}
         THEN [body EXCEPT ![c.key] = c.payload]
         ELSE [body EXCEPT ![c.key] = Absent]

\* an applier that takes the entries newest first
RECURSIVE applyChangelistNewestFirst(_, _, _)
applyChangelistNewestFirst(body, cl, i) ==
    IF i > Len(cl) THEN body
    ELSE applyChange(applyChangelistNewestFirst(body, cl, i + 1), cl[i])

\* applyChangelist(repo, cl): the entries of cl applied in order, from index i on
RECURSIVE applyChangelist(_, _, _)
applyChangelist(body, cl, i) ==
    IF i > Len(cl) THEN body
    ELSE applyChangelist(applyChange(body, cl[i]), cl, i + 1)

\* a NewTufChange called with scope and type in each other's place
NewTufChangeSwapped(action, scope, type, name, payload) ==
    [action |-> action, scope |-> type, type |-> scope, key |-> name,
     payload |-> payload]

\* changelist.NewTufChange(ActionCreate, "targets", "target", name, metaJSON)
NewTufChange(action, scope, type, name, payload) ==
    [action |-> action, scope |-> scope, type |-> type, key |-> name,
     payload |-> payload]

\* r.rootKeyStore.GetDecryptedKey(rootKeyID, passphrase): the error it returns
GetDecryptedKey(store, rootKeyID, passphrase) ==
    IF ~(store.linked /\ rootKeyID = RootCertKey /\ store.pass # "none")
    THEN "KeyNotFound"
    ELSE IF passphrase # store.pass THEN "BadPassphrase" ELSE Nil

\* fmt.Errorf("...: %v", err): a new error value that keeps err's text only
Errorf(err) == "errorString"

\* GetRootSigner(rootKeyID, passphrase): the error it returns
GetRootSigner(store, rootKeyID, passphrase) ==
    LET err == GetDecryptedKey(store, rootKeyID, passphrase)
    IN  IF err # Nil THEN Errorf(err) ELSE Nil

(***************************************************************************)
(* The state after NewNotaryRepository: nothing staged, nothing cached,    *)
(* no root key yet; the CA store holds what the trust directory held.      *)
(***************************************************************************)
NoValidateIn == [root |-> RootFile(<<>>, {}, FALSE), cs |-> {}, ca |-> {}, gun |-> GUN]
NoValidateOut == [done |-> FALSE, err |-> Nil, certs |-> {}]

Init ==
    /\ remote = NoFiles
    /\ cache = NoFiles
    /\ changelist = <<>>
    /\ certificateStore = {}
    /\ caStore = CAs
    /\ rootKeyStore = [pass |-> "none", linked |-> FALSE]
    /\ tufRepo = NewTufRepo
    /\ pc = "idle"
    /\ pub = NewPub(<<>>)
    /\ local = NoLocal
    /\ ret = NoRet
    /\ cause = Nil
    /\ vin = NoValidateIn
    /\ vout = NoValidateOut

\* an operation called with arg returns val and err to its caller; c is the
\* error its failing step raised
ReturnVal(op, arg, val, err, c) ==
    /\ pc' = "done"
    /\ ret' = [op |-> op, err |-> err, arg |-> arg, val |-> val]
    /\ cause' = c
    /\ local' = NoLocal

\* an operation that hands back an error only
Return(op, err, c) == ReturnVal(op, Nil, NoVal, err, c)

\* the caller has the result of the operation and goes on; ret, cause and pub
\* describe an operation from its call until then
CallerContinues ==
    /\ pc = "done"
    /\ pc' = "idle"
    /\ pub' = NewPub(<<>>)
    /\ ret' = NoRet
    /\ cause' = Nil
    /\ UNCHANGED <<remote, cache, changelist, certificateStore, caStore,
                   rootKeyStore, tufRepo, local, vin, vout>>

(***************************************************************************)
(* GenRootKey(passphrase). The model keeps one root key.                   *)
(***************************************************************************)
GenRootKey(passphrase, genOk, stored) ==
    /\ pc = "idle"
    /\ rootKeyStore.pass = "none"
    /\ IF ~genOk
       THEN /\ Return("GenRootKey", "errorString", "GenerateError")
            /\ UNCHANGED rootKeyStore
       ELSE \* the error of AddEncryptedKey is dropped: the id is returned anyway
            /\ rootKeyStore' = IF stored
                               THEN [rootKeyStore EXCEPT !.pass = passphrase]
                               ELSE rootKeyStore
            /\ Return("GenRootKey", Nil, Nil)
    /\ pub' = NewPub(<<>>)
    /\ UNCHANGED <<remote, cache, changelist, certificateStore, caStore, tufRepo,
                   vin, vout>>

(***************************************************************************)
(* Initialize(uSigner). f is the step that fails ("none": no step does);   *)
(* certAdded is whether the certificate store took the root certificate,   *)
(* targetsWritten whether the cache took the targets file: Initialize and  *)
(* snapshot() drop the errors of these two writes. Initialize is called on *)
(* a repository no call of Initialize has completed on yet.                *)
(***************************************************************************)
InitSteps == <<"cert", "link", "tskey", "create", "filestore", "initrepo",
               "signroot", "saveroot", "signtargets", "signsnapshot",
               "savesnapshot", "none">>

StepIndex(f) == CHOOSE i \in 1..Len(InitSteps) : InitSteps[i] = f

\* the run that fails at step f got past step s
Passed(f, s) == StepIndex(f) > StepIndex(s)

InitError(f) ==
    CASE f = "cert" -> "errorString"
      [] f \in {"link", "create"} -> "KeyStoreError"
      [] f = "tskey" -> "Transport"
      [] f \in {"filestore", "saveroot", "savesnapshot"} -> "FileStoreError"
      [] f = "initrepo" -> "InitRepoError"
      [] f \in {"signroot", "signtargets", "signsnapshot"} -> "SignError"
      [] OTHER -> Nil

\* the role graph tufRepo.InitRepo builds, and what the signing steps make of it
InitialRoot(signed) ==
    RootFile(<<RootCertKey>>, IF signed THEN {RootCertKey} ELSE {}, FALSE)

InitialRepo(f) ==
    IF ~Passed(f, "initrepo") THEN NewTufRepo
    ELSE [root |-> InitialRoot(Passed(f, "signroot")),
          rootDirty |-> TRUE,
          targets |-> TargetsFile(EmptyBody),
          targetsDirty |-> TRUE,
          snapshot |-> SnapshotFile(EmptyBody)]

Initialize(f, certAdded, targetsWritten) ==
    /\ pc = "idle"
    /\ rootKeyStore.pass # "none"
    /\ cache.snapshot.kind = "none"
    /\ certificateStore' = IF Passed(f, "cert") /\ certAdded
                           THEN certificateStore \cup {CertOf(RootCertKey).fp}
                           ELSE certificateStore
    /\ rootKeyStore' = IF Passed(f, "link")
                       THEN [rootKeyStore EXCEPT !.linked = TRUE]
                       ELSE rootKeyStore
    /\ tufRepo' = IF Passed(f, "create") THEN InitialRepo(f) ELSE tufRepo
    /\ cache' = [root     |-> IF Passed(f, "saveroot")
                              THEN InitialRoot(TRUE) ELSE cache.root,
                 targets  |-> IF Passed(f, "signtargets") /\ targetsWritten
                              THEN TargetsFile(EmptyBody) ELSE cache.targets,
                 snapshot |-> IF f = "none"
                              THEN SnapshotFile(EmptyBody) ELSE cache.snapshot]
    /\ Return("Initialize", InitError(f), InitError(f))
    /\ pub' = NewPub(<<>>)
    /\ UNCHANGED <<remote, changelist, caStore, vin, vout>>

(***************************************************************************)
(* AddTarget(target). e is the error of the step that fails (Nil: none);   *)
(* cl.Close() comes after cl.Add(c), so its error is returned with the     *)
(* entry appended.                                                         *)
(***************************************************************************)
AddTarget(name, meta, e) ==
    /\ pc = "idle"
    /\ Len(changelist) < MaxChanges
    /\ changelist' = IF e \in {Nil, "CloseError"}
                     THEN Append(changelist,
                                 NewTufChange("create", "targets", "target", name, meta))
                     ELSE changelist
    /\ ReturnVal("AddTarget", [name |-> name, meta |-> meta], NoVal, e, e)
    /\ pub' = NewPub(<<>>)
    /\ UNCHANGED <<remote, cache, certificateStore, caStore, rootKeyStore, tufRepo,
                   vin, vout>>

(***************************************************************************)
(* Publish(getPass), one action per step between two calls that leave the  *)
(* process: the remote, the disk, the passphrase callback.                 *)
(***************************************************************************)
Roles == {"root", "targets", "snapshot"}

\* a bootstrapClient that builds the new role graph before it validates the
\* root it fetched
bootstrapClientAssignsFirst(netErr) ==
    LET v == validateRoot(remote.root, certificateStore, caStore, GUN)
    IN  IF netErr # Nil THEN [err |-> netErr, repo |-> tufRepo]
        ELSE IF remote.root.kind = "none"
             THEN [err |-> "ErrMetaNotFound", repo |-> tufRepo]
        ELSE IF remote.root.kind = "malformed"
             THEN [err |-> "Malformed", repo |-> tufRepo]
        ELSE [err |-> v.err, repo |-> [NewTufRepo EXCEPT !.root = remote.root]]

\* bootstrapClient(): the error it returns and the role graph it leaves in
\* r.tufRepo; netErr is the error of the transport (Nil: the remote answered)
bootstrapClient(netErr) ==
    LET v == validateRoot(remote.root, certificateStore, caStore, GUN)
    IN  IF netErr # Nil THEN [err |-> netErr, repo |-> tufRepo]
        ELSE IF remote.root.kind = "none"
             THEN [err |-> "ErrMetaNotFound", repo |-> tufRepo]
        ELSE IF remote.root.kind = "malformed"
             THEN [err |-> "Malformed", repo |-> tufRepo]
        ELSE IF v.err # Nil THEN [err |-> v.err, repo |-> tufRepo]
        ELSE [err |-> Nil, repo |-> [NewTufRepo EXCEPT !.root = remote.root]]

\* what fileStore.GetMeta(role) followed by json.Unmarshal returns
loadCached(role) ==
    IF cache[role].kind = "none" THEN "ErrMetaNotFound"
    ELSE IF cache[role].kind = "malformed" THEN "Malformed"
    ELSE Nil

\* bootstrapRepo(): the error it returns and the role graph it builds; fsErr
\* is the error of store.NewFilesystemStore
bootstrapRepo(fsErr) ==
    LET loaded == [root |-> cache.root, rootDirty |-> FALSE,
                   targets |-> cache.targets, targetsDirty |-> FALSE,
                   snapshot |-> cache.snapshot]
    IN  IF fsErr # Nil THEN [err |-> fsErr, repo |-> tufRepo]
        ELSE IF loadCached("root") # Nil
             THEN [err |-> loadCached("root"), repo |-> tufRepo]
        ELSE IF loadCached("targets") # Nil
             THEN [err |-> loadCached("targets"), repo |-> tufRepo]
        ELSE IF loadCached("snapshot") # Nil
             THEN [err |-> loadCached("snapshot"), repo |-> tufRepo]
        ELSE [err |-> Nil, repo |-> loaded]

\* c.Update(): the error of fetching and verifying the remaining roles
\* against the role graph the client was made with (r.tufRepo)
Update(netErr) ==
    IF netErr # Nil THEN netErr
    ELSE IF remote.snapshot.kind = "none" \/ remote.targets.kind = "none"
         THEN "ErrMetaNotFound"
    ELSE IF remote.snapshot.kind = "malformed" \/ remote.targets.kind = "malformed"
         THEN "Malformed"
    ELSE IF remote.snapshot.tbody # remote.targets.body
         THEN "ErrChecksumMismatch"
    ELSE IF \/ VersionOf(remote.targets) < VersionOf(tufRepo.targets)
            \/ VersionOf(remote.snapshot) < VersionOf(tufRepo.snapshot)
         THEN "Rollback"
    ELSE Nil

\* a type test that lets every error of bootstrapClient through
AnyErrorIsNotFound(err) == TRUE

\* err.(*store.ErrMetaNotFound): the one error of bootstrapClient Publish catches
IsMetaNotFound(err) == err = "ErrMetaNotFound"

\* what Publish returns when bootstrapRepo failed with err
NotInitialized(err) == "ErrRepoNotInitialized"

\* a first-publish path that forgets to mark root for upload
UpdateRootNever == FALSE

\* updateRoot after the local cache was loaded
UpdateRootFromCache == TRUE

\* a Publish that signs root again whatever its state
ResignAlways(repo) == TRUE

\* the condition under which Publish signs root again
NeedRootResign(repo) == nearExpiry(repo.root) \/ repo.rootDirty

\* a Publish that drops the error of getPass
PassphraseNeverFailed(err) == FALSE

\* the test of the error getPass returned
PassphraseFailed(err) == err # Nil

\* a Publish that drops the error of remote.SetMeta
SetMetaNeverFailed(err) == FALSE

\* the test of the error remote.SetMeta returned
SetMetaFailed(err) == err # Nil

PublishBootstrapClient(netErr) ==
    /\ pc = "idle"
    /\ LET c == bootstrapClient(netErr)
           p == NewPub(changelist)
       IN  /\ tufRepo' = c.repo
           /\ IF c.err # Nil
              THEN IF IsMetaNotFound(c.err)
                   THEN /\ pc' = "bootstrapRepo"
                        /\ pub' = [p EXCEPT !.notFound = (c.err = "ErrMetaNotFound"),
                                            !.bootFail = (c.err # "ErrMetaNotFound")]
                        /\ UNCHANGED <<local, ret, cause>>
                   ELSE /\ pub' = [p EXCEPT !.bootFail = TRUE]
                        /\ Return("Publish", c.err, c.err)
              ELSE /\ pc' = "update"
                   /\ pub' = p
                   /\ UNCHANGED <<local, ret, cause>>
    /\ UNCHANGED <<remote, cache, changelist, certificateStore, caStore,
                   rootKeyStore, vin, vout>>

PublishBootstrapRepo(fsErr, toSignedOk) ==
    /\ pc = "bootstrapRepo"
    /\ LET b == bootstrapRepo(fsErr)
           p == [pub EXCEPT !.loadedCache = TRUE]
       IN  /\ tufRepo' = b.repo
           /\ IF b.err # Nil
              THEN /\ pub' = p
                   /\ Return("Publish", NotInitialized(b.err), b.err)
              ELSE IF ~toSignedOk
              THEN /\ pub' = p
                   /\ Return("Publish", "MarshalError", "MarshalError")
              ELSE /\ pub' = [p EXCEPT !.updateRoot = UpdateRootFromCache]
                   /\ local' = [local EXCEPT !.root = b.repo.root]
                   /\ pc' = "apply"
                   /\ UNCHANGED <<ret, cause>>
    /\ UNCHANGED <<remote, cache, changelist, certificateStore, caStore,
                   rootKeyStore, vin, vout>>

PublishUpdate(netErr) ==
    /\ pc = "update"
    /\ LET err == Update(netErr)
       IN  IF err # Nil
           THEN /\ Return("Publish", err, err)
                /\ UNCHANGED tufRepo
           ELSE /\ tufRepo' = [tufRepo EXCEPT !.targets = remote.targets,
                                              !.snapshot = remote.snapshot]
                /\ pc' = "apply"
                /\ UNCHANGED <<local, ret, cause>>
    /\ UNCHANGED <<remote, cache, changelist, certificateStore, caStore,
                   rootKeyStore, pub, vin, vout>>

\* e: the error of changelist.NewFileChangelist or of applyChangelist
PublishApply(e) ==
    /\ pc = "apply"
    /\ IF e # Nil
       THEN /\ Return("Publish", e, e)
            /\ pub' = [pub EXCEPT !.applied = (e = "ApplyError")]
            /\ UNCHANGED tufRepo
       ELSE /\ tufRepo' =
                  [tufRepo EXCEPT
                      !.targets.body = applyChangelist(@, changelist, 1),
                      !.targetsDirty = @ \/ Len(changelist) > 0]
            /\ pub' = [pub EXCEPT !.applied = TRUE, !.replayed = Len(changelist)]
            /\ pc' = "signroot"
            /\ UNCHANGED <<local, ret, cause>>
    /\ UNCHANGED <<remote, cache, changelist, certificateStore, caStore,
                   rootKeyStore, vin, vout>>

\* what getPass may answer
Answers == [pass : Passphrases, err : {Nil, "CallbackError"}]

PublishSignRoot(answer, signOk) ==
    /\ pc = "signroot"
    /\ LET near == tufRepo.root.nearExp \/ tufRepo.rootDirty
           p0 == [pub EXCEPT !.nearOrDirty = near]
           p1 == [p0 EXCEPT !.passCalls = @ + 1, !.passErr = (answer.err # Nil)]
           rootKeyID == tufRepo.root.keyids[1]
           gerr == GetRootSigner(rootKeyStore, rootKeyID, answer.pass)
           signed == RootFile(tufRepo.root.keyids, {rootKeyID}, FALSE)
       IN  IF ~NeedRootResign(tufRepo)
           THEN /\ pub' = p0
                /\ pc' = "sign"
                /\ UNCHANGED <<tufRepo, local, ret, cause>>
           ELSE IF PassphraseFailed(answer.err)
           THEN /\ pub' = p1
                /\ Return("Publish", answer.err, answer.err)
                /\ UNCHANGED tufRepo
           ELSE IF gerr # Nil
           THEN /\ pub' = p1
                /\ Return("Publish", gerr,
                          GetDecryptedKey(rootKeyStore, rootKeyID, answer.pass))
                /\ UNCHANGED tufRepo
           ELSE IF ~signOk
           THEN /\ pub' = p1
                /\ Return("Publish", "SignError", "SignError")
                /\ UNCHANGED tufRepo
           ELSE /\ tufRepo' = [tufRepo EXCEPT !.root = signed]
                /\ pub' = [p1 EXCEPT !.updateRoot = TRUE]
                /\ local' = [local EXCEPT !.root = signed]
                /\ pc' = "sign"
                /\ UNCHANGED <<ret, cause>>
    /\ UNCHANGED <<remote, cache, changelist, certificateStore, caStore,
                   rootKeyStore, vin, vout>>

\* f: the step of signing and serializing targets and snapshot that fails
SignSteps == <<"signtargets", "signsnapshot", "remote", "marshaltargets",
               "marshalsnapshot", "none">>

SignError(f) ==
    CASE f \in {"signtargets", "signsnapshot"} -> "SignError"
      [] f = "remote" -> "RemoteStoreError"
      [] f \in {"marshaltargets", "marshalsnapshot"} -> "MarshalError"
      [] OTHER -> Nil

PublishSign(f) ==
    /\ pc = "sign"
    /\ LET targets  == Resigned(tufRepo.targets, TargetsFile(tufRepo.targets.body))
           snapshot == Resigned(tufRepo.snapshot, SnapshotFile(targets.body))
       IN  /\ tufRepo' = [tufRepo EXCEPT
                            !.snapshot = IF f \notin {"signtargets", "signsnapshot"}
                                         THEN snapshot ELSE @]
           /\ IF f # "none"
              THEN Return("Publish", SignError(f), SignError(f))
              ELSE /\ local' = [local EXCEPT !.targetsJSON = targets,
                                             !.snapshotJSON = snapshot]
                   /\ pc' = "putroot"
                   /\ UNCHANGED <<ret, cause>>
    /\ UNCHANGED <<remote, cache, changelist, certificateStore, caStore,
                   rootKeyStore, pub, vin, vout>>

\* remote.SetMeta(role, file): the PUT is issued and the remote answers with
\* error e (Nil: it stored the file); then the test of e, and the step at next
\* or the return
SetMeta(role, file, e, next) ==
    /\ remote' = IF e = Nil THEN [remote EXCEPT ![role] = file] ELSE remote
    /\ pub' = [pub EXCEPT !.puts = Append(@, role), !.putFailed = (e # Nil)]
    /\ IF SetMetaFailed(e)
       THEN Return("Publish", e, e)
       ELSE IF next = "done"
       THEN Return("Publish", Nil, Nil)
       ELSE /\ pc' = next
            /\ local' = IF role = "root" THEN [local EXCEPT !.rootJSON = file]
                        ELSE local
            /\ UNCHANGED <<ret, cause>>

SetMetaErrors == {Nil, "Transport", "Conflict"}

PublishPutRoot(marshalOk, e) ==
    /\ pc = "putroot"
    /\ IF ~pub.updateRoot
       THEN /\ pc' = "puttargets"
            /\ UNCHANGED <<remote, pub, local, ret, cause>>
       ELSE IF ~marshalOk
       THEN /\ Return("Publish", "MarshalError", "MarshalError")
            /\ UNCHANGED <<remote, pub>>
       ELSE SetMeta("root", local.root, e, "puttargets")
    /\ UNCHANGED <<cache, changelist, certificateStore, caStore, rootKeyStore,
                   tufRepo, vin, vout>>

PublishPutTargets(e) ==
    /\ pc = "puttargets"
    /\ SetMeta("targets", local.targetsJSON, e, "putsnapshot")
    /\ UNCHANGED <<cache, changelist, certificateStore, caStore, rootKeyStore,
                   tufRepo, vin, vout>>

PublishPutSnapshot(e) ==
    /\ pc = "putsnapshot"
    /\ SetMeta("snapshot", local.snapshotJSON, e, "done")
    /\ UNCHANGED <<cache, changelist, certificateStore, caStore, rootKeyStore,
                   tufRepo, vin, vout>>

(***************************************************************************)
(* ListTargets() and GetTargetByName(name), one action per call of the     *)
(* remote: bootstrapClient, then c.Update and the answer.                  *)
(***************************************************************************)
FetchOps == {"ListTargets", "GetTargetByName"}

\* a test of a fetch step's error that lets every error through
FetchNeverFailed(err) == FALSE

\* `if err != nil { return nil, err }` after bootstrapClient and after c.Update
FetchFailed(err) == err # Nil

\* r.tufRepo.Targets["targets"].Signed.Targets
SignedTargets(repo) ==
    IF repo.targets.kind = "targets" THEN repo.targets.body ELSE EmptyBody

\* c.TargetMeta(name): Absent stands for nil
TargetMeta(repo, name) == SignedTargets(repo)[name]

\* name: the argument of GetTargetByName (Nil for ListTargets)
FetchBootstrapClient(op, name, netErr) ==
    /\ pc = "idle"
    /\ LET c == bootstrapClient(netErr)
           p == NewPub(changelist)
       IN  /\ tufRepo' = c.repo
           /\ IF FetchFailed(c.err)
              THEN /\ pub' = p
                   /\ ReturnVal(op, name, NoVal, c.err, c.err)
              ELSE /\ pub' = [p EXCEPT !.rootFetched = (c.err = Nil)]
                   /\ pc' = IF op = "ListTargets" THEN "listupdate" ELSE "getupdate"
                   /\ local' = [NoLocal EXCEPT !.name = name]
                   /\ UNCHANGED <<ret, cause>>
    /\ UNCHANGED <<remote, cache, changelist, certificateStore, caStore,
                   rootKeyStore, vin, vout>>

FetchUpdate(netErr) ==
    /\ pc \in {"listupdate", "getupdate"}
    /\ LET op   == IF pc = "listupdate" THEN "ListTargets" ELSE "GetTargetByName"
           name == local.name
           err  == Update(netErr)
           repo == [tufRepo EXCEPT !.targets = remote.targets,
                                   !.snapshot = remote.snapshot]
           meta == TargetMeta(repo, name)
       IN  IF FetchFailed(err)
           THEN /\ ReturnVal(op, name, NoVal, err, err)
                /\ UNCHANGED <<tufRepo, pub>>
           ELSE /\ tufRepo' = repo
                /\ pub' = [pub EXCEPT !.rolesFetched = (err = Nil)]
                /\ IF op = "ListTargets"
                   THEN ReturnVal(op, name, TargetList(SignedTargets(repo)), Nil, Nil)
                   ELSE IF meta = Absent
                   THEN ReturnVal(op, name, NoVal, "errorString", "MetaIsNil")
                   ELSE ReturnVal(op, name, TargetVal(name, meta), Nil, Nil)
    /\ UNCHANGED <<remote, cache, changelist, certificateStore, caStore,
                   rootKeyStore, vin, vout>>

(***************************************************************************)
(* What happens around the repository: time passes, the remote is changed  *)
(* by others, a cached file is damaged on disk.                            *)
(***************************************************************************)
Near(f) == IF f.kind = "root" THEN [f EXCEPT !.nearExp = TRUE] ELSE f

\* time passes until every root signed so far is within the near-expiry window
Tick ==
    /\ pc = "idle"
    /\ \/ Near(remote.root) # remote.root
       \/ Near(cache.root) # cache.root
       \/ Near(tufRepo.root) # tufRepo.root
    /\ remote' = [remote EXCEPT !.root = Near(@)]
    /\ cache' = [cache EXCEPT !.root = Near(@)]
    /\ tufRepo' = [tufRepo EXCEPT !.root = Near(@)]
    /\ UNCHANGED <<changelist, certificateStore, caStore, rootKeyStore, pc, pub,
                   local, ret, cause, vin, vout>>

\* the roots someone else may put on the remote: bytes that do not parse, a
\* root of a foreign certificate, a root of a certificate issued by ca1
TamperRoots ==
    {MalformedFile,
     RootFile(<<"k2">>, {"k2"}, FALSE),
     RootFile(<<"k3">>, {"k3"}, FALSE)}

RemoteTamper(rf) ==
    /\ pc = "idle"
    /\ remote.root # rf
    /\ remote' = [remote EXCEPT !.root = rf]
    /\ UNCHANGED <<cache, changelist, certificateStore, caStore, rootKeyStore,
                   tufRepo, pc, pub, local, ret, cause, vin, vout>>

\* DELETE {base}/v2/{gun}/_trust/tuf/
RemoteDelete ==
    /\ pc = "idle"
    /\ remote # NoFiles
    /\ remote' = NoFiles
    /\ UNCHANGED <<cache, changelist, certificateStore, caStore, rootKeyStore,
                   tufRepo, pc, pub, local, ret, cause, vin, vout>>

\* the trust directory of the repository is removed from the disk
ClearCache ==
    /\ pc = "idle"
    /\ cache # NoFiles
    /\ cache' = NoFiles
    /\ UNCHANGED <<remote, changelist, certificateStore, caStore, rootKeyStore,
                   tufRepo, pc, pub, local, ret, cause, vin, vout>>

CorruptCache(role) ==
    /\ pc = "idle"
    /\ IsFile(cache[role])
    /\ cache' = [cache EXCEPT ![role] = MalformedFile]
    /\ UNCHANGED <<remote, changelist, certificateStore, caStore, rootKeyStore,
                   tufRepo, pc, pub, local, ret, cause, vin, vout>>

Next ==
    \/ \E p \in KeyPassphrases, genOk \in BOOLEAN, stored \in BOOLEAN :
          GenRootKey(p, genOk, stored)
    \/ \E f \in Range(InitSteps) :
          \E ca \in (IF Passed(f, "cert") THEN BOOLEAN ELSE {TRUE}) :
             \E tw \in (IF Passed(f, "signtargets") THEN BOOLEAN ELSE {TRUE}) :
                Initialize(f, ca, tw)
    \/ \E n \in TargetNames, m \in Metas,
          e \in {Nil, "ChangelistError", "MarshalError", "CloseError"} :
          AddTarget(n, m, e)
    \/ \E e \in {Nil, "Transport"} : PublishBootstrapClient(e)
    \/ \E e \in {Nil, "FileStoreError"}, ok \in BOOLEAN : PublishBootstrapRepo(e, ok)
    \/ \E e \in {Nil, "Transport"} : PublishUpdate(e)
    \/ \E e \in {Nil, "ChangelistError", "ApplyError"} : PublishApply(e)
    \/ \E a \in Answers, ok \in BOOLEAN : PublishSignRoot(a, ok)
    \/ \E f \in Range(SignSteps) : PublishSign(f)
    \/ \E ok \in BOOLEAN, e \in SetMetaErrors : PublishPutRoot(ok, e)
    \/ \E e \in SetMetaErrors : PublishPutTargets(e)
    \/ \E e \in SetMetaErrors : PublishPutSnapshot(e)
    \/ Tick
    \/ \E rf \in TamperRoots : RemoteTamper(rf)
    \/ RemoteDelete
    \/ \E r \in Roles : CorruptCache(r)
    \/ CallerContinues

Spec == Init /\ [][Next]_vars

(***************************************************************************)
(* The repository with its readers: Initialize, AddTarget and Publish run  *)
(* with stores, signer and callback that work (a PUT may still fail), the  *)
(* remote root is changed by others, and ListTargets and GetTargetByName   *)
(* fetch with a transport that may fail.                                   *)
(***************************************************************************)
TransportErrors == {Nil, "Transport"}

NextFetch ==
    \/ \E p \in KeyPassphrases : GenRootKey(p, TRUE, TRUE)
    \/ \E ca \in BOOLEAN : Initialize("none", ca, TRUE)
    \/ \E n \in TargetNames, m \in Metas : AddTarget(n, m, Nil)
    \/ PublishBootstrapClient(Nil)
    \/ PublishBootstrapRepo(Nil, TRUE)
    \/ PublishUpdate(Nil)
    \/ PublishApply(Nil)
    \/ \E p \in KeyPassphrases : PublishSignRoot([pass |-> p, err |-> Nil], TRUE)
    \/ PublishSign("none")
    \/ \E e \in TransportErrors : PublishPutRoot(TRUE, e)
    \/ \E e \in TransportErrors : PublishPutTargets(e)
    \/ \E e \in TransportErrors : PublishPutSnapshot(e)
    \/ \E rf \in TamperRoots : RemoteTamper(rf)
    \/ \E e \in TransportErrors : FetchBootstrapClient("ListTargets", Nil, e)
    \/ \E n \in TargetNames, e \in TransportErrors :
          FetchBootstrapClient("GetTargetByName", n, e)
    \/ \E e \in TransportErrors : FetchUpdate(e)
    \/ CallerContinues

SpecFetch == Init /\ [][NextFetch]_vars

(***************************************************************************)
(* The readers against a remote that serves what it likes: a root issued   *)
(* by ca1 for the GUN, and targets and snapshot of any version and body.   *)
(***************************************************************************)
Versions == 1..MaxVersion
Bodies == [TargetNames -> Metas \cup {Absent}]

RemoteServes(v, body) ==
    /\ pc = "idle"
    /\ remote' = [root     |-> RootFile(<<"k3">>, {"k3"}, FALSE),
                  targets  |-> Versioned(TargetsFile(body), v),
                  snapshot |-> Versioned(SnapshotFile(body), v)]
    /\ remote' # remote
    /\ UNCHANGED <<cache, changelist, certificateStore, caStore, rootKeyStore,
                   tufRepo, pc, pub, local, ret, cause, vin, vout>>

NextVersions ==
    \/ \E v \in Versions, b \in Bodies : RemoteServes(v, b)
    \/ FetchBootstrapClient("ListTargets", Nil, Nil)
    \/ \E n \in TargetNames : FetchBootstrapClient("GetTargetByName", n, Nil)
    \/ FetchUpdate(Nil)
    \/ CallerContinues

SpecVersions == Init /\ [][NextVersions]_vars

(***************************************************************************)
(* The operations of the repository with nothing failing: stores, signer,  *)
(* callback and transport work, nobody else writes to the remote, and the  *)
(* file cache may be removed between two calls. Targets are added with     *)
(* either of two contents.                                                 *)
(***************************************************************************)
Contents == Metas \cup {"m2"}

NextOps ==
    \/ \E p \in KeyPassphrases : GenRootKey(p, TRUE, TRUE)
    \/ Initialize("none", TRUE, TRUE)
    \/ \E n \in TargetNames, m \in Contents : AddTarget(n, m, Nil)
    \/ PublishBootstrapClient(Nil)
    \/ PublishBootstrapRepo(Nil, TRUE)
    \/ PublishUpdate(Nil)
    \/ PublishApply(Nil)
    \/ \E p \in KeyPassphrases : PublishSignRoot([pass |-> p, err |-> Nil], TRUE)
    \/ PublishSign("none")
    \/ PublishPutRoot(TRUE, Nil)
    \/ PublishPutTargets(Nil)
    \/ PublishPutSnapshot(Nil)
    \/ FetchBootstrapClient("ListTargets", Nil, Nil)
    \/ \E n \in TargetNames : FetchBootstrapClient("GetTargetByName", n, Nil)
    \/ FetchUpdate(Nil)
    \/ ClearCache
    \/ CallerContinues

SpecOps == Init /\ [][NextOps]_vars

(***************************************************************************)
(* Two instances on one base directory: the other instance runs AddTarget  *)
(* on the changelist of the GUN while this one is inside a call. Neither   *)
(* AddTarget nor Publish takes a lock around changelist.NewFileChangelist. *)
(***************************************************************************)
PublishSteps == {"bootstrapRepo", "update", "apply", "signroot", "sign",
                 "putroot", "puttargets", "putsnapshot"}

PeerAddTarget(name, meta) ==
    /\ pc \in PublishSteps
    /\ Len(changelist) < MaxChanges
    /\ changelist' = Append(changelist,
                            NewTufChange("create", "targets", "target", name, meta))
    /\ UNCHANGED <<remote, cache, certificateStore, caStore, rootKeyStore,
                   tufRepo, pc, pub, local, ret, cause, vin, vout>>

NextShared ==
    \/ NextOps
    \/ \E n \in TargetNames, m \in Metas : PeerAddTarget(n, m)

SpecShared == Init /\ [][NextShared]_vars

(***************************************************************************)
(* Two publishers of one GUN, each with its own base directory. The remote *)
(* holds version 1 of an empty collection under a root issued by ca1; it   *)
(* takes a role file only at a version above the one it holds. This        *)
(* instance stages target "a"; the other one stages "b" and sends its      *)
(* targets and its snapshot, as Publish does, in two requests.             *)
(***************************************************************************)
\* store.UpdateMany for one role file, as atomicUpdateHandler reports it
UpdateMany(role, file) ==
    IF VersionOf(file) <= VersionOf(remote[role]) THEN "ErrOldVersion" ELSE Nil

PeerChange == NewTufChange("create", "targets", "target", "b", "m1")

RemoteConsistent ==
    /\ remote.targets.kind = "targets"
    /\ remote.snapshot.kind = "snapshot"
    /\ remote.snapshot.tbody = remote.targets.body

\* the other publisher fetched the remote as it is and its PUT of targets
\* comes in
PeerPutTargets ==
    /\ RemoteConsistent
    /\ remote.targets.body["b"] = Absent
    /\ VersionOf(remote.targets) < MaxVersion
    /\ remote' = [remote EXCEPT
                     !.targets = Resigned(@, TargetsFile(applyChange(@.body, PeerChange)))]
    /\ UNCHANGED <<cache, changelist, certificateStore, caStore, rootKeyStore,
                   tufRepo, pc, pub, local, ret, cause, vin, vout>>

\* the other publisher's PUT of snapshot comes in
PeerPutSnapshot ==
    /\ pc # "putsnapshot"
    /\ remote.targets.kind = "targets"
    /\ remote.snapshot.kind = "snapshot"
    /\ remote.snapshot.tbody # remote.targets.body
    /\ remote' = [remote EXCEPT
                     !.snapshot = Resigned(@, SnapshotFile(remote.targets.body))]
    /\ UNCHANGED <<cache, changelist, certificateStore, caStore, rootKeyStore,
                   tufRepo, pc, pub, local, ret, cause, vin, vout>>

NextRace ==
    \/ remote = NoFiles /\ RemoteServes(1, EmptyBody)
    \/ \E m \in Metas : AddTarget("a", m, Nil)
    \/ PublishBootstrapClient(Nil)
    \/ PublishBootstrapRepo(Nil, TRUE)
    \/ PublishUpdate(Nil)
    \/ PublishApply(Nil)
    \/ \E p \in KeyPassphrases : PublishSignRoot([pass |-> p, err |-> Nil], TRUE)
    \/ VersionOf(tufRepo.targets) < MaxVersion /\ PublishSign("none")
    \/ PublishPutRoot(TRUE, Nil)
    \/ PublishPutTargets(UpdateMany("targets", local.targetsJSON))
    \/ PublishPutSnapshot(UpdateMany("snapshot", local.snapshotJSON))
    \/ PeerPutTargets
    \/ PeerPutSnapshot
    \/ CallerContinues

SpecRace == Init /\ [][NextRace]_vars

\* a caller that goes on calling
SpecOpsFair == SpecOps /\ WF_vars(NextOps)

(***************************************************************************)
(* The two certificate stores of a repository. loadKeys builds both from   *)
(* the files of one trust directory, each with its filter; later calls add *)
(* to a store, remove from it and look certificates up, and validateRoot   *)
(* consults both. Here vin is what loadKeys reads: the certificates that   *)
(* lie in the trust directory and the time of day; files are put into the  *)
(* directory from outside too. A certificate is named by its fingerprint.  *)
(***************************************************************************)
MaxTime == 2

\* a NotAfter the clock of the model does not reach
Far == MaxTime + 1

CaCerts == {"ca1", "ca2", "ca3"}
StoreCerts == Fingerprints \cup CaCerts

\* the fields of a certificate the filters read
X509(c) ==
    CASE c = "f1"  -> [IsCA |-> FALSE, BasicConstraintsValid |-> FALSE,
                       SubjectKeyId |-> FALSE, NotAfter |-> Far,
                       SignatureAlgorithm |-> "SHA256WithRSA"]
      [] c = "f2"  -> [IsCA |-> FALSE, BasicConstraintsValid |-> FALSE,
                       SubjectKeyId |-> FALSE, NotAfter |-> Far,
                       SignatureAlgorithm |-> "SHA1WithRSA"]
      [] c = "f3"  -> [IsCA |-> FALSE, BasicConstraintsValid |-> FALSE,
                       SubjectKeyId |-> TRUE, NotAfter |-> 1,
                       SignatureAlgorithm |-> "ECDSAWithSHA256"]
      [] c = "f4"  -> [IsCA |-> FALSE, BasicConstraintsValid |-> FALSE,
                       SubjectKeyId |-> FALSE, NotAfter |-> 0,
                       SignatureAlgorithm |-> "SHA256WithRSA"]
      [] c = "ca1" -> [IsCA |-> TRUE, BasicConstraintsValid |-> TRUE,
                       SubjectKeyId |-> TRUE, NotAfter |-> Far,
                       SignatureAlgorithm |-> "SHA256WithRSA"]
      [] c = "ca2" -> [IsCA |-> TRUE, BasicConstraintsValid |-> TRUE,
                       SubjectKeyId |-> TRUE, NotAfter |-> Far,
                       SignatureAlgorithm |-> "ECDSAWithSHA1"]
      [] OTHER     -> [IsCA |-> TRUE, BasicConstraintsValid |-> TRUE,
                       SubjectKeyId |-> FALSE, NotAfter |-> 1,
                       SignatureAlgorithm |-> "SHA256WithRSA"]

SHA1Algorithms == {"SHA1WithRSA", "DSAWithSHA1", "ECDSAWithSHA1"}

\* the validator loadKeys gives the CA store
caValidator(c, now) ==
    /\ X509(c).IsCA
    /\ X509(c).BasicConstraintsValid
    /\ X509(c).SubjectKeyId
    /\ now < X509(c).NotAfter
    /\ X509(c).SignatureAlgorithm \notin SHA1Algorithms

\* the validator of NewX509FileStore, which takes every certificate
acceptAll(c, now) == TRUE

\* the validator loadKeys gives the certificate store
certValidator(c, now) ==
    /\ ~X509(c).IsCA
    /\ now < X509(c).NotAfter
    /\ X509(c).SignatureAlgorithm \notin SHA1Algorithms

StoreNames == {"caStore", "certificateStore"}

\* s.validate.Validate(cert) of the named store
Validate(store, c, now) ==
    IF store = "caStore" THEN caValidator(c, now) ELSE certValidator(c, now)

\* addNamedCert(cert, filename) on a store that holds the certificates s
addNamedCert(s, store, c, now) ==
    IF c \in s THEN [err |-> "certificate already in the store", s |-> s]
    ELSE IF ~Validate(store, c, now)
         THEN [err |-> "certificate validation failed", s |-> s]
    ELSE [err |-> Nil, s |-> s \cup {c}]

\* loadCertsFromDir(s, directory): every certificate file of the directory
\* is added to the new store
loadCertsFromDir(store, dir, now) ==
    {c \in dir : addNamedCert({}, store, c, now).err = Nil}

StoreOf(store) == IF store = "caStore" THEN caStore ELSE certificateStore

\* the two stores after store was set to s
WithStore(store, s) ==
    [caStore |-> IF store = "caStore" THEN s ELSE caStore,
     certificateStore |-> IF store = "certificateStore" THEN s
                          ELSE certificateStore]

loadKeys ==
    /\ pc = "idle"
    /\ caStore' = loadCertsFromDir("caStore", vin.dir, vin.now)
    /\ certificateStore' = loadCertsFromDir("certificateStore", vin.dir, vin.now)
    /\ ReturnVal("loadKeys", Nil, NoVal, Nil, Nil)
    /\ UNCHANGED <<remote, cache, changelist, rootKeyStore, tufRepo, pub, vin, vout>>

\* AddCert(cert) on one of the stores; saved: saveCertificate wrote the file
AddCert(store, c, saved) ==
    /\ pc = "idle"
    /\ LET a == addNamedCert(StoreOf(store), store, c, vin.now)
           w == a.err = Nil /\ c \notin vin.dir
           e == IF a.err # Nil THEN a.err
                ELSE IF w /\ ~saved THEN "SaveError" ELSE Nil
       IN  /\ caStore' = WithStore(store, a.s).caStore
           /\ certificateStore' = WithStore(store, a.s).certificateStore
           /\ vin' = [vin EXCEPT !.dir = IF w /\ saved THEN @ \cup {c} ELSE @]
           /\ ReturnVal("AddCert", [store |-> store, cert |-> c], NoVal, e, e)
    /\ UNCHANGED <<remote, cache, changelist, rootKeyStore, tufRepo, pub, vout>>

\* RemoveCert(cert): the certificate leaves the maps and the file the store
\* has for it is removed
RemoveCert(store, c) ==
    /\ pc = "idle"
    /\ LET s == StoreOf(store)
           e == IF c \in s /\ c \in vin.dir THEN Nil ELSE "PathError"
       IN  /\ caStore' = WithStore(store, s \ {c}).caStore
           /\ certificateStore' = WithStore(store, s \ {c}).certificateStore
           /\ vin' = [vin EXCEPT !.dir = IF c \in s THEN @ \ {c} ELSE @]
           /\ ReturnVal("RemoveCert", [store |-> store, cert |-> c], NoVal, e, e)
    /\ UNCHANGED <<remote, cache, changelist, rootKeyStore, tufRepo, pub, vout>>

\* GetCertificateBySKID(hexSKID) with the id of c
GetCertificateBySKID(store, c) ==
    /\ pc = "idle"
    /\ LET found == c \in StoreOf(store)
           e == IF found THEN Nil ELSE "certificate not found in Key Store"
       IN  ReturnVal("GetCertificateBySKID", [store |-> store, cert |-> c],
                     [kind |-> "cert", found |-> found], e, e)
    /\ UNCHANGED <<remote, cache, changelist, certificateStore, caStore,
                   rootKeyStore, tufRepo, pub, vin, vout>>

\* validateRoot on a root that lists key k and is signed with it
ValidateStoredRoot(k) ==
    /\ pc = "idle"
    /\ LET v == validateRoot(RootFile(<<k>>, {k}, FALSE), certificateStore,
                             caStore, GUN)
       IN  ReturnVal("validateRoot", k, NoVal, v.err, v.err)
    /\ UNCHANGED <<remote, cache, changelist, certificateStore, caStore,
                   rootKeyStore, tufRepo, pub, vin, vout>>

\* somebody puts a certificate file into the trust directory
PlaceFile(c) ==
    /\ pc = "idle"
    /\ c \notin vin.dir
    /\ vin' = [vin EXCEPT !.dir = @ \cup {c}]
    /\ UNCHANGED <<remote, cache, changelist, certificateStore, caStore,
                   rootKeyStore, tufRepo, pc, pub, local, ret, cause, vout>>

\* time passes
ClockTick ==
    /\ pc = "idle"
    /\ vin.now < MaxTime
    /\ vin' = [vin EXCEPT !.now = @ + 1]
    /\ UNCHANGED <<remote, cache, changelist, certificateStore, caStore,
                   rootKeyStore, tufRepo, pc, pub, local, ret, cause, vout>>

StoresInit ==
    /\ remote = NoFiles
    /\ cache = NoFiles
    /\ changelist = <<>>
    /\ certificateStore = {}
    /\ caStore = {}
    /\ rootKeyStore = [pass |-> "none", linked |-> FALSE]
    /\ tufRepo = NewTufRepo
    /\ pc = "idle"
    /\ pub = NewPub(<<>>)
    /\ local = NoLocal
    /\ ret = NoRet
    /\ cause = Nil
    /\ vin = [dir |-> {}, now |-> 0]
    /\ vout = NoValidateOut

NextStores ==
    \/ loadKeys
    \/ /\ pc = "idle"
       /\ \E s \in StoreNames, c \in StoreCerts, saved \in BOOLEAN : AddCert(s, c, saved)
    \/ /\ pc = "idle"
       /\ \E s \in StoreNames, c \in StoreCerts : RemoveCert(s, c)
    \/ /\ pc = "idle"
       /\ \E s \in StoreNames, c \in StoreCerts : GetCertificateBySKID(s, c)
    \/ \E k \in KeyIds : ValidateStoredRoot(k)
    \/ \E c \in StoreCerts : PlaceFile(c)
    \/ ClockTick
    \/ CallerContinues

SpecStores == StoresInit /\ [][NextStores]_vars

(***************************************************************************)
(* One X509FileStore with its three maps. certificateStore is the struct:  *)
(* validate, fileMap, fingerprintMap and nameMap; vin.dir is the set of    *)
(* the files that exist in baseDir and vin.now the time of day. A map of   *)
(* Go is a function on the keys it holds; nameMap is read through          *)
(* s.nameMap[name], which gives the empty list for a name it does not      *)
(* hold, so it is a function on all names. vout.removed remembers the      *)
(* fingerprint RemoveCert was last called with.                            *)
(***************************************************************************)
IndexCerts == {"f1", "f2", "f3"}
BaseNames == {"site"}
certExtension == ".crt"

\* cert.RawSubject of the certificate with these raw bytes
RawSubject(raw) == CertOf(CHOOSE k \in KeyIds : CertOf(k).fp = raw).cn
Subjects == {RawSubject(c) : c \in IndexCerts}

\* an *x509.Certificate: what the store reads of it
Certificate(raw) == [Raw |-> raw, RawSubject |-> RawSubject(raw)]
Certificates == {Certificate(c) : c \in IndexCerts}

\* nil, as the argument of AddCert and RemoveCert
NilCert == [Raw |-> Nil, RawSubject |-> Nil]

\* fingerprintCert(cert): the id made from the raw bytes
fingerprintCert(cert) == cert.Raw

Put(m, k, v) == [x \in DOMAIN m \cup {k} |-> IF x = k THEN v ELSE m[x]]
Delete(m, k) == [x \in DOMAIN m \ {k} |-> m[x]]

\* the validators a store is made with: NewX509FileStore's, which takes every
\* certificate, and the one loadKeys gives the certificate store
Validators == {"any", "certificateStore"}

\* s.validate.Validate(cert)
X509FileStore_Validate(s, cert, now) ==
    IF s.validate = "any" THEN acceptAll(cert.Raw, now)
    ELSE certValidator(cert.Raw, now)

\* NewX509FileStore / NewX509FilteredFileStore over an empty directory
NewX509FileStore(validate) ==
    [validate |-> validate,
     fileMap |-> <<>>,
     fingerprintMap |-> <<>>,
     nameMap |-> [n \in Subjects |-> <<>>]]

\* the outcome of a call on the store: its error, the store and the files of
\* baseDir afterwards
StoreOutcome(err, s, dir) == [err |-> err, s |-> s, dir |-> dir]

\* a list of nameMap that took the fingerprint twice
appendAgain(fpList, fingerprint) == Append(Append(fpList, fingerprint), fingerprint)

\* append(s.nameMap[name], fingerprint)
appendFingerprint(fpList, fingerprint) == Append(fpList, fingerprint)

\* addNamedCert(cert, filename); saved: saveCertificate wrote the file
X509FileStore_addNamedCert(s, dir, cert, filename, now, saved) ==
    IF cert = NilCert
    THEN StoreOutcome("adding nil Certificate to X509Store", s, dir)
    ELSE LET fingerprint == fingerprintCert(cert)
             name == cert.RawSubject
             t == [s EXCEPT !.fingerprintMap = Put(@, fingerprint, cert),
                            !.fileMap = Put(@, fingerprint, filename),
                            !.nameMap[name] = appendFingerprint(@, fingerprint)]
         IN  IF fingerprint \in DOMAIN s.fingerprintMap
             THEN StoreOutcome("certificate already in the store", s, dir)
             ELSE IF ~X509FileStore_Validate(s, cert, now)
             THEN StoreOutcome("certificate validation failed", s, dir)
             ELSE IF filename \notin dir
             THEN IF saved THEN StoreOutcome(Nil, t, dir \cup {filename})
                  ELSE StoreOutcome("SaveError", t, dir)
             ELSE StoreOutcome(Nil, t, dir)

\* AddCert(cert): the file is named after the fingerprint
X509FileStore_addCert(s, dir, cert, now, saved) ==
    IF cert = NilCert
    THEN StoreOutcome("adding nil Certificate to X509Store", s, dir)
    ELSE X509FileStore_addNamedCert(s, dir, cert,
             fingerprintCert(cert) \o certExtension, now, saved)

\* genDestinationCertFilename(cert, sourceFilename) for a source file bName.crt
genDestinationCertFilename(dir, cert, bName) ==
    IF (bName \o certExtension) \in dir
    THEN bName \o "_" \o fingerprintCert(cert) \o certExtension
    ELSE bName \o certExtension

\* the loop of RemoveCert over s.nameMap[name]
filterOut(fpList, fingerprint) ==
    SelectSeq(fpList, LAMBDA x : x # fingerprint)

\* RemoveCert(cert); removed: os.Remove could remove a file that is there
X509FileStore_removeCert(s, dir, cert, removed) ==
    IF cert = NilCert
    THEN StoreOutcome("removing nil Certificate from X509Store", s, dir)
    ELSE LET fingerprint == fingerprintCert(cert)
             filename == IF fingerprint \in DOMAIN s.fileMap
                         THEN s.fileMap[fingerprint] ELSE ""
             name == cert.RawSubject
             t == [s EXCEPT !.fingerprintMap = Delete(@, fingerprint),
                            !.fileMap = Delete(@, fingerprint),
                            !.nameMap[name] = filterOut(@, fingerprint)]
         IN  IF filename \in dir /\ removed
             THEN StoreOutcome(Nil, t, dir \ {filename})
             ELSE StoreOutcome("PathError", t, dir)

\* GetCertificates() and GetCertificatePool(): the values of fingerprintMap
GetCertificates(s) == {s.fingerprintMap[k] : k \in DOMAIN s.fingerprintMap}

\* a call on the store came back: the store and the directory are as the call
\* left them
StoreReturns(op, arg, val, o) ==
    /\ certificateStore' = o.s
    /\ vin' = [vin EXCEPT !.dir = o.dir]
    /\ ReturnVal(op, arg, val, o.err, o.err)
    /\ UNCHANGED <<remote, cache, changelist, caStore, rootKeyStore, tufRepo, pub>>

X509FileStore_AddCert(cert, saved) ==
    /\ pc = "idle"
    /\ StoreReturns("AddCert", [cert |-> cert, saved |-> saved], NoVal,
                    X509FileStore_addCert(certificateStore, vin.dir, cert,
                                          vin.now, saved))
    /\ UNCHANGED vout

\* AddCertFromPEM(pemBytes): pem is the certificate the bytes hold, or nil
\* for bytes that hold none
X509FileStore_AddCertFromPEM(pem, saved) ==
    /\ pc = "idle"
    /\ StoreReturns("AddCertFromPEM", [cert |-> pem, saved |-> saved], NoVal,
                    IF pem = NilCert
                    THEN StoreOutcome("no valid certificates found",
                                      certificateStore, vin.dir)
                    ELSE X509FileStore_addCert(certificateStore, vin.dir, pem,
                                               vin.now, saved))
    /\ UNCHANGED vout

\* AddCertFromFile(originFilname) for a file bName.crt that holds content
X509FileStore_AddCertFromFile(bName, content, saved) ==
    /\ pc = "idle"
    /\ StoreReturns("AddCertFromFile", [cert |-> content, saved |-> saved], NoVal,
                    IF content = NilCert
                    THEN StoreOutcome("no valid certificates found",
                                      certificateStore, vin.dir)
                    ELSE X509FileStore_addNamedCert(certificateStore, vin.dir,
                             content,
                             genDestinationCertFilename(vin.dir, content, bName),
                             vin.now, saved))
    /\ UNCHANGED vout

X509FileStore_RemoveCert(cert, removed) ==
    /\ pc = "idle"
    /\ StoreReturns("RemoveCert", [cert |-> cert, saved |-> removed], NoVal,
                    X509FileStore_removeCert(certificateStore, vin.dir, cert,
                                             removed))
    /\ vout' = IF cert = NilCert THEN vout
               ELSE [vout EXCEPT !.removed = fingerprintCert(cert)]

X509FileStore_GetCertificates ==
    /\ pc = "idle"
    /\ StoreReturns("GetCertificates", Nil,
                    [kind |-> "certs", certs |-> GetCertificates(certificateStore)],
                    StoreOutcome(Nil, certificateStore, vin.dir))
    /\ UNCHANGED vout

\* GetCertificateBySKID(hexSKID) with the fingerprint of cert
X509FileStore_GetCertificateBySKID(cert) ==
    /\ pc = "idle"
    /\ LET id == fingerprintCert(cert)
           found == id \in DOMAIN certificateStore.fingerprintMap
       IN  StoreReturns("GetCertificateBySKID", [cert |-> cert, saved |-> FALSE],
                        [kind |-> "certs",
                         certs |-> IF found
                                   THEN {certificateStore.fingerprintMap[id]}
                                   ELSE {}],
                        StoreOutcome(IF found THEN Nil
                                     ELSE "certificate not found in Key Store",
                                     certificateStore, vin.dir))
    /\ UNCHANGED vout

IndexesInit ==
    /\ remote = NoFiles
    /\ cache = NoFiles
    /\ changelist = <<>>
    /\ certificateStore \in {NewX509FileStore(v) : v \in Validators}
    /\ caStore = {}
    /\ rootKeyStore = [pass |-> "none", linked |-> FALSE]
    /\ tufRepo = NewTufRepo
    /\ pc = "idle"
    /\ pub = NewPub(<<>>)
    /\ local = NoLocal
    /\ ret = NoRet
    /\ cause = Nil
    /\ vin = [dir |-> {}, now |-> 0]
    /\ vout = [removed |-> Nil]

NextIndexes ==
    \/ /\ pc = "idle"
       /\ \E cert \in Certificates \cup {NilCert}, saved \in BOOLEAN :
             X509FileStore_AddCert(cert, saved)
    \/ /\ pc = "idle"
       /\ \E pem \in Certificates \cup {NilCert}, saved \in BOOLEAN :
             X509FileStore_AddCertFromPEM(pem, saved)
    \/ /\ pc = "idle"
       /\ \E bName \in BaseNames, content \in Certificates \cup {NilCert},
             saved \in BOOLEAN :
             X509FileStore_AddCertFromFile(bName, content, saved)
    \/ /\ pc = "idle"
       /\ \E cert \in Certificates \cup {NilCert}, removed \in BOOLEAN :
             X509FileStore_RemoveCert(cert, removed)
    \/ X509FileStore_GetCertificates
    \/ /\ pc = "idle"
       /\ \E cert \in Certificates : X509FileStore_GetCertificateBySKID(cert)
    \/ CallerContinues

SpecIndexes == IndexesInit /\ [][NextIndexes]_vars

(***************************************************************************)
(* KeyNativeStore.Get. remote is the native keychain: the credentials kept *)
(* under each server name. Get reads the key, then asks the passphrase     *)
(* retriever the store was made with until it has a passphrase; local is   *)
(* the frame of Get while it runs, and vout.calls the calls of the         *)
(* retriever the latest Get made, each with the attempt number it passed   *)
(* and what came back. The retriever is the caller's function: what it     *)
(* returns is drawn.                                                       *)
(***************************************************************************)
MaxCalls == 6

NativeKeyIDs == {"k1", "k2", "k3", "k4", "k5"}
notaryKeyTag == "<notary_key>"

\* a Username is the sequence of its pieces; the tag is one piece
Credentials(url, username, pemOK) ==
    [kind |-> "credentials", ServerURL |-> url, Username |-> username,
     Secret |-> [pem |-> url, parses |-> pemOK]]
NoCredentials == [kind |-> "none"]

\* the keychain: two keys AddKey stored, a credential of another program, a
\* notary key whose secret does not parse, and nothing under k5
Keychain ==
    [k \in NativeKeyIDs |->
        CASE k = "k1" -> Credentials(k, <<GUN, notaryKeyTag, "root">>, TRUE)
          [] k = "k2" -> Credentials(k, <<GUN, notaryKeyTag, "targets">>, TRUE)
          [] k = "k3" -> Credentials(k, <<"someone">>, TRUE)
          [] k = "k4" -> Credentials(k, <<"", notaryKeyTag, "snapshot">>, FALSE)
          [] OTHER    -> NoCredentials]

\* strings.SplitAfter(s, sep): s cut after each sep, the pieces joined
RECURSIVE SplitAfterFrom(_, _, _, _)
SplitAfterFrom(s, sep, i, piece) ==
    IF i > Len(s) THEN <<piece>>
    ELSE IF s[i] = sep
         THEN <<piece \o s[i]>> \o SplitAfterFrom(s, sep, i + 1, "")
         ELSE SplitAfterFrom(s, sep, i + 1, piece \o s[i])
SplitAfter(s, sep) == SplitAfterFrom(s, sep, 1, "")

\* GetKey(keyID): the key, its role and the error, or the panic of the index
\* into the pieces of a Username without the tag
GetKey_native(keychain, keyID) ==
    LET gotCredentials == keychain[keyID]
    IN  IF gotCredentials.kind = "none"
        THEN [panic |-> FALSE, privKey |-> Nil, role |-> "",
              err |-> "credentials not found in native keychain"]
        ELSE LET pieces == SplitAfter(gotCredentials.Username, notaryKeyTag)
             IN  IF Len(pieces) < 2
                 THEN [panic |-> TRUE, privKey |-> Nil, role |-> "", err |-> "panic"]
                 ELSE IF gotCredentials.Secret.parses
                 THEN [panic |-> FALSE, privKey |-> gotCredentials.Secret.pem,
                       role |-> pieces[2], err |-> Nil]
                 ELSE [panic |-> FALSE, privKey |-> Nil, role |-> pieces[2],
                       err |-> "ErrParsePEM"]

\* what a call of the retriever can return: chosenPassphrase, giveup, err
RetrieverResults ==
    [passphrase : {"", "p1"}, giveup : BOOLEAN, err : {Nil, "ErrRetriever"}]

ErrGivenUp == "Given up"
ErrExceeded == "Exceeded attempts, please select a secure passphrase and type it with care"

\* a Get that asks for as long as the retriever fails
neverExceeded(attempts) == FALSE

\* the test of the attempts made so far
exceeded(attempts) == attempts > 3

\* utils.EncryptPrivateKey(gotKey, role, "", chosenPassphrase)
EncryptPrivateKey(gotKey, role, gun, passphrase) ==
    [kind |-> "encrypted", key |-> gotKey, role |-> role, gun |-> gun,
     passphrase |-> passphrase]

\* Get(keyID) up to the loop
Get(keyID) ==
    /\ pc = "idle"
    /\ vout' = [calls |-> <<>>]
    /\ LET g == GetKey_native(remote, keyID)
       IN  IF g.err # Nil
           THEN ReturnVal("Get", keyID, NoVal, g.err, g.err)
           ELSE /\ pc' = "PassRetriever"
                /\ local' = [keyID |-> keyID, gotKey |-> g.privKey,
                             role |-> g.role, attempts |-> 0,
                             chosenPassphrase |-> ""]
                /\ UNCHANGED <<ret, cause>>
    /\ UNCHANGED <<remote, cache, changelist, certificateStore, caStore,
                   rootKeyStore, tufRepo, pub, vin>>

\* one turn of the loop of Get: the retriever returns r
PassRetriever(r) ==
    /\ pc = "PassRetriever"
    /\ Len(vout.calls) < MaxCalls
    /\ vout' = [calls |-> Append(vout.calls,
                   [keyID |-> local.keyID, role |-> local.role,
                    attempts |-> local.attempts, passphrase |-> r.passphrase,
                    giveup |-> r.giveup, err |-> r.err])]
    /\ IF r.giveup
       THEN ReturnVal("Get", local.keyID, NoVal, ErrGivenUp, ErrGivenUp)
       ELSE IF exceeded(local.attempts)
       THEN ReturnVal("Get", local.keyID, NoVal, ErrExceeded, ErrExceeded)
       ELSE IF r.err # Nil
       THEN /\ local' = [local EXCEPT !.attempts = @ + 1,
                                      !.chosenPassphrase = r.passphrase]
            /\ UNCHANGED <<pc, ret, cause>>
       ELSE /\ local' = [local EXCEPT !.chosenPassphrase = r.passphrase]
            /\ pc' = "EncryptPrivateKey"
            /\ UNCHANGED <<ret, cause>>
    /\ UNCHANGED <<remote, cache, changelist, certificateStore, caStore,
                   rootKeyStore, tufRepo, pub, vin>>

\* the last line of Get; e: the error of the encryption
GetEncrypts(e) ==
    /\ pc = "EncryptPrivateKey"
    /\ ReturnVal("Get", local.keyID,
                 IF e = Nil
                 THEN EncryptPrivateKey(local.gotKey, local.role, "",
                                        local.chosenPassphrase)
                 ELSE NoVal,
                 e, e)
    /\ UNCHANGED <<remote, cache, changelist, certificateStore, caStore,
                   rootKeyStore, tufRepo, pub, vin, vout>>

NativeInit ==
    /\ remote = Keychain
    /\ cache = NoFiles
    /\ changelist = <<>>
    /\ certificateStore = {}
    /\ caStore = {}
    /\ rootKeyStore = [pass |-> "none", linked |-> FALSE]
    /\ tufRepo = NewTufRepo
    /\ pc = "idle"
    /\ pub = NewPub(<<>>)
    /\ local = NoLocal
    /\ ret = NoRet
    /\ cause = Nil
    /\ vin = NoValidateIn
    /\ vout = [calls |-> <<>>]

NextNative ==
    \/ \E keyID \in NativeKeyIDs : Get(keyID)
    \/ \E r \in RetrieverResults : PassRetriever(r)
    \/ \E e \in {Nil, "ErrEncrypt"} : GetEncrypts(e)
    \/ CallerContinues

\* the retriever returns, the encryption returns and the caller goes on
SpecNative ==
    /\ NativeInit /\ [][NextNative]_vars
    /\ WF_vars(\E r \in RetrieverResults : PassRetriever(r))
    /\ WF_vars(\E e \in {Nil, "ErrEncrypt"} : GetEncrypts(e))

(***************************************************************************)
(* DefaultPassphraseStore. The store has no fields: it keeps a passphrase  *)
(* in the environment of the process, under a name made from the alias.    *)
(* remote is that environment, a map from the names that are set to their  *)
(* values; the process may have been started with names set. vout.set      *)
(* remembers, for each alias, the passphrase of the last SetPassphrase     *)
(* that returned no error.                                                 *)
(***************************************************************************)
envPrefix == "NOTARY_SIGNER_"

Aliases == {"key", "Key", "db", "k=y"}
NewPassphrases == {"p", "q"}

\* the upper-case letter of a character
ToUpperChar(c) ==
    CASE c = "k" -> "K"
      [] c = "e" -> "E"
      [] c = "y" -> "Y"
      [] c = "d" -> "D"
      [] c = "b" -> "B"
      [] OTHER   -> c

\* strings.ToUpper(s)
RECURSIVE ToUpper(_)
ToUpper(s) ==
    IF s = "" THEN ""
    ELSE ToUpperChar(SubSeq(s, 1, 1)) \o ToUpper(SubSeq(s, 2, Len(s)))

\* the character c occurs in s
RECURSIVE Contains(_, _)
Contains(s, c) ==
    /\ s # ""
    /\ \/ SubSeq(s, 1, 1) = c
       \/ Contains(SubSeq(s, 2, Len(s)), c)

\* os.Setenv(key, value): refused for a name with "=" in it
Setenv(env, key, value) ==
    IF key = "" \/ Contains(key, "=")
    THEN [err |-> "EINVAL", env |-> env]
    ELSE [err |-> Nil, env |-> Put(env, key, value)]

\* os.Getenv(key): the value, or the empty string for a name that is not set
Getenv(env, key) == IF key \in DOMAIN env THEN env[key] ELSE ""

\* the environments the process is started with
StartEnvironments == {<<>>, Put(<<>>, "NOTARY_SIGNER_DB", "e")}

SetPassphrase(alias, newPassphrase) ==
    /\ pc = "idle"
    /\ LET envVariable == ToUpper(envPrefix \o alias)
           error == Setenv(remote, envVariable, newPassphrase)
       IN  /\ remote' = error.env
           /\ vout' = IF error.err = Nil
                      THEN [vout EXCEPT !.set = Put(@, alias, newPassphrase)]
                      ELSE vout
           /\ ReturnVal("SetPassphrase",
                        [alias |-> alias, passphrase |-> newPassphrase],
                        NoVal, error.err, error.err)
    /\ UNCHANGED <<cache, changelist, certificateStore, caStore, rootKeyStore,
                   tufRepo, pub, vin>>

GetPassphrase(alias) ==
    /\ pc = "idle"
    /\ LET envVariable == ToUpper(envPrefix \o alias)
           pass == Getenv(remote, envVariable)
       IN  ReturnVal("GetPassphrase", [alias |-> alias, passphrase |-> ""],
                     [kind |-> "passphrase", pass |-> pass], Nil, Nil)
    /\ UNCHANGED <<remote, cache, changelist, certificateStore, caStore,
                   rootKeyStore, tufRepo, pub, vin, vout>>

PassphraseInit ==
    /\ remote \in StartEnvironments
    /\ cache = NoFiles
    /\ changelist = <<>>
    /\ certificateStore = {}
    /\ caStore = {}
    /\ rootKeyStore = [pass |-> "none", linked |-> FALSE]
    /\ tufRepo = NewTufRepo
    /\ pc = "idle"
    /\ pub = NewPub(<<>>)
    /\ local = NoLocal
    /\ ret = NoRet
    /\ cause = Nil
    /\ vin = NoValidateIn
    /\ vout = [set |-> <<>>]

NextPassphrase ==
    \/ \E alias \in Aliases, p \in NewPassphrases : SetPassphrase(alias, p)
    \/ \E alias \in Aliases : GetPassphrase(alias)
    \/ CallerContinues

SpecPassphrase == PassphraseInit /\ [][NextPassphrase]_vars

(***************************************************************************)
(* rootHandler.ServeHTTP. A request comes in for a rootHandler made with   *)
(* some scopes; Authorize and the wrapped handler are the interfaces the   *)
(* rootHandler was made with, so what they return is drawn. While the      *)
(* request is served, local holds it with what was written to w so far;    *)
(* the wrapped handler writes its response when it returns nil.            *)
(***************************************************************************)
Methods == {"GET", "POST", "DELETE"}
ScopeLists == {<<"pull">>, <<"pull", "push">>}
Requests == [method : Methods, scopes : ScopeLists, user : {"anonymous", "token"}]

AuthorizeErrors == {Nil, "TokenRequired", "InsufficientScope"}

\* the *errors.HTTPError values the wrapped handler may return
HTTPErrors == [kind : {"HTTPError"}, HTTPStatus : {400, 401, 404, 409, 500}]
NoHTTPError == [kind |-> "nil"]
HandlerResults == {NoHTTPError} \cup HTTPErrors

\* http.StatusUnauthorized
StatusUnauthorized == 401

\* http.Error(w, msg, code)
HttpError(w, code) == Append(w, [by |-> "http.Error", status |-> code])

\* a ServeHTTP whose 401 branch does not return
AfterUnauthorizedFallsThrough == "handler"

\* where ServeHTTP is after it has written the 401
AfterUnauthorized == "done"

\* ServeHTTP up to the call of the wrapped handler
ServeAuthorize(req, authErr) ==
    /\ pc = "idle"
    /\ LET w == IF authErr # Nil THEN HttpError(<<>>, StatusUnauthorized) ELSE <<>>
       IN  IF authErr # Nil /\ AfterUnauthorized = "done"
           THEN ReturnVal("ServeHTTP", req,
                          [kind |-> "response", w |-> w, authErr |-> authErr,
                           calls |-> 0, result |-> NoHTTPError],
                          authErr, authErr)
           ELSE /\ pc' = "handler"
                /\ local' = [kind |-> "request", req |-> req, w |-> w,
                             authErr |-> authErr]
                /\ UNCHANGED <<ret, cause>>
    /\ UNCHANGED <<remote, cache, changelist, certificateStore, caStore,
                   rootKeyStore, tufRepo, pub, vin, vout>>

\* root.handler(ctx, w, r) and the rest of ServeHTTP
ServeHandler(result) ==
    /\ pc = "handler"
    /\ LET w == IF result = NoHTTPError
                THEN Append(local.w, [by |-> "handler", status |-> 200])
                ELSE HttpError(local.w, result.HTTPStatus)
       IN  ReturnVal("ServeHTTP", local.req,
                     [kind |-> "response", w |-> w, authErr |-> local.authErr,
                      calls |-> 1, result |-> result],
                     IF result = NoHTTPError THEN Nil ELSE "HTTPError",
                     IF result = NoHTTPError THEN Nil ELSE "HTTPError")
    /\ UNCHANGED <<remote, cache, changelist, certificateStore, caStore,
                   rootKeyStore, tufRepo, pub, vin, vout>>

NextServe ==
    \/ \E req \in Requests, e \in AuthorizeErrors : ServeAuthorize(req, e)
    \/ \E res \in HandlerResults : ServeHandler(res)
    \/ CallerContinues

SpecServe == Init /\ [][NextServe]_vars

(***************************************************************************)
(* The server's handler of GET {gun}/_trust/tuf/{role}.key, with two       *)
(* requests in flight. Here remote is what the handler reaches through its *)
(* context: the key the metaStore holds for each server-managed role of    *)
(* the GUN (0: none) and the number of keys the cryptoService has created  *)
(* (key n is the n-th one); local holds the two requests. A request stops  *)
(* at its calls of the metaStore and of the cryptoService, where the other *)
(* request may run.                                                        *)
(***************************************************************************)
MaxKeys == 3

\* the roles whose keys the server holds
ManagedRoles == {"timestamp", "snapshot"}

KeyRequests == {1, 2}

\* vars["tufRole"] and vars["imageName"] of a request
RequestedRoles == {"", "root", "targets", "timestamp", "snapshot"}
RequestedGuns == {"", GUN}

\* what the context of a request may lack
KeyFaults == {"none", "NoStorage", "NoCryptoService", "NoKeyAlgorithm"}

NoKeyRequest == [at |-> "idle"]

KeyResponse(req, err, key) ==
    [at |-> "done", gun |-> req.gun, role |-> req.role, fault |-> req.fault,
     err |-> err, key |-> key]

\* a switch that hands every role to the key service
EveryRoleManaged(role) == TRUE

\* the cases of the switch on role that lead to a key
ServerManaged(role) == role \in ManagedRoles

\* getKeyHandler up to the switch on role
getKeyHandler(i, gun, role, fault) ==
    /\ local[i].at = "idle"
    /\ LET req == [gun |-> gun, role |-> role, fault |-> fault]
           err == IF gun = "" THEN "ErrUnknown"
                  ELSE IF role = "" THEN "ErrUnknown"
                  ELSE IF fault = "NoStorage" THEN "ErrNoStorage"
                  ELSE IF fault = "NoCryptoService" THEN "ErrNoCryptoService"
                  ELSE IF fault = "NoKeyAlgorithm" THEN "ErrNoKeyAlgorithm"
                  ELSE IF ~ServerManaged(role) THEN "ErrInvalidRole"
                  ELSE Nil
       IN  local' = [local EXCEPT ![i] =
                        IF err # Nil THEN KeyResponse(req, err, 0)
                        ELSE [at |-> "get", gun |-> gun, role |-> role,
                              fault |-> fault]]
    /\ UNCHANGED <<remote, cache, changelist, certificateStore, caStore,
                   rootKeyStore, tufRepo, pc, pub, ret, cause, vin, vout>>

\* GetOrCreate...Key: store.GetKey(gun, role); e is an error of the store
\* other than ErrNoKey
GetKey(i, e) ==
    /\ local[i].at = "get"
    /\ LET req == local[i]
       IN  local' = [local EXCEPT ![i] =
                        IF e # Nil THEN KeyResponse(req, "ErrUnknown", 0)
                        ELSE IF remote.keys[req.role] # 0
                        THEN KeyResponse(req, Nil, remote.keys[req.role])
                        ELSE [req EXCEPT !.at = "create"]]
    /\ UNCHANGED <<remote, cache, changelist, certificateStore, caStore,
                   rootKeyStore, tufRepo, pc, pub, ret, cause, vin, vout>>

\* GetOrCreate...Key: crypto.Create(role, gun, algorithm)
CreateKey(i, e) ==
    /\ local[i].at = "create"
    /\ remote.created < MaxKeys
    /\ LET req == local[i]
       IN  IF e # Nil
           THEN /\ local' = [local EXCEPT ![i] = KeyResponse(req, "ErrUnknown", 0)]
                /\ UNCHANGED remote
           ELSE /\ remote' = [remote EXCEPT !.created = @ + 1]
                /\ local' = [local EXCEPT ![i] =
                                [at |-> "set", gun |-> req.gun, role |-> req.role,
                                 fault |-> req.fault, key |-> remote.created + 1]]
    /\ UNCHANGED <<cache, changelist, certificateStore, caStore,
                   rootKeyStore, tufRepo, pc, pub, ret, cause, vin, vout>>

\* GetOrCreate...Key: store.SetKey(gun, role, algorithm, public), which
\* refuses a second key for the role; then the key that is stored is read
SetKey(i, e) ==
    /\ local[i].at = "set"
    /\ LET req == local[i]
       IN  IF e # Nil
           THEN /\ local' = [local EXCEPT ![i] = KeyResponse(req, "ErrUnknown", 0)]
                /\ UNCHANGED remote
           ELSE IF remote.keys[req.role] # 0
           THEN /\ local' = [local EXCEPT ![i] =
                                KeyResponse(req, Nil, remote.keys[req.role])]
                /\ UNCHANGED remote
           ELSE /\ remote' = [remote EXCEPT !.keys[req.role] = req.key]
                /\ local' = [local EXCEPT ![i] = KeyResponse(req, Nil, req.key)]
    /\ UNCHANGED <<cache, changelist, certificateStore, caStore,
                   rootKeyStore, tufRepo, pc, pub, ret, cause, vin, vout>>

\* the client has its response
KeyReceived(i) ==
    /\ local[i].at = "done"
    /\ local' = [local EXCEPT ![i] = NoKeyRequest]
    /\ UNCHANGED <<remote, cache, changelist, certificateStore, caStore,
                   rootKeyStore, tufRepo, pc, pub, ret, cause, vin, vout>>

KeysInit ==
    /\ remote = [keys |-> [r \in ManagedRoles |-> 0], created |-> 0]
    /\ cache = NoFiles
    /\ changelist = <<>>
    /\ certificateStore = {}
    /\ caStore = {}
    /\ rootKeyStore = [pass |-> "none", linked |-> FALSE]
    /\ tufRepo = NewTufRepo
    /\ pc = "idle"
    /\ pub = NewPub(<<>>)
    /\ local = [i \in KeyRequests |-> NoKeyRequest]
    /\ ret = NoRet
    /\ cause = Nil
    /\ vin = NoValidateIn
    /\ vout = NoValidateOut

StoreErrors == {Nil, "StoreError"}

NextKeys ==
    \/ \E i \in KeyRequests, g \in RequestedGuns, r \in RequestedRoles,
          f \in KeyFaults : getKeyHandler(i, g, r, f)
    \/ \E i \in KeyRequests, e \in StoreErrors : GetKey(i, e)
    \/ \E i \in KeyRequests, e \in {Nil, "CreateError"} : CreateKey(i, e)
    \/ \E i \in KeyRequests, e \in StoreErrors : SetKey(i, e)
    \/ \E i \in KeyRequests : KeyReceived(i)

SpecKeys == KeysInit /\ [][NextKeys]_vars

(***************************************************************************)
(* The server's handler of POST {gun}/_trust/tuf/. Here remote is the      *)
(* metaStore of the GUN: for each role the versions stored, oldest first.  *)
(* A request is the sequence of parts its multipart reader yields; a part  *)
(* carries a file name and a body that decodes to a version or does not,   *)
(* and a broken part is one on which reader.NextPart fails.                *)
(***************************************************************************)
MaxParts == 2

\* the highest version a part carries
MaxUploaded == 2

\* data.ValidRole
ValidRoles == {"root", "targets", "snapshot", "timestamp"}

ValidRole(role) == role \in ValidRoles

FileNames == {".json", "bogus.json", "targets.json", "snapshot"}

HasSuffix(s, suffix) ==
    /\ Len(s) >= Len(suffix)
    /\ SubSeq(s, Len(s) - Len(suffix) + 1, Len(s)) = suffix

\* strings.TrimSuffix
TrimSuffix(s, suffix) ==
    IF HasSuffix(s, suffix) THEN SubSeq(s, 1, Len(s) - Len(suffix)) ELSE s

BrokenPart == [kind |-> "broken"]

UploadParts ==
    {BrokenPart}
       \cup {[kind |-> "part", name |-> n, json |-> FALSE, version |-> 0] :
                n \in FileNames}
       \cup {[kind |-> "part", name |-> n, json |-> TRUE, version |-> v] :
                n \in {"targets.json", "snapshot"}, v \in 1..MaxUploaded}

Uploads == UNION {[1..n -> UploadParts] : n \in 0..MaxParts}

NoRows == [r \in ValidRoles |-> <<>>]

\* the version the store holds for a role (0: none)
Current(versions) == IF versions = <<>> THEN 0 ELSE versions[Len(versions)]

\* the loop over the parts from part i on: the error of the first part that
\* is refused, and the updates collected until then
RECURSIVE parseParts(_, _, _)
parseParts(req, i, updates) ==
    IF i > Len(req) THEN [err |-> Nil, updates |-> updates]
    ELSE IF req[i].kind = "broken" THEN [err |-> "panic", updates |-> updates]
    ELSE LET role == TrimSuffix(req[i].name, ".json")
         IN  IF role = "" THEN [err |-> "ErrNoFilename", updates |-> updates]
             ELSE IF ~ValidRole(role)
                  THEN [err |-> "ErrInvalidRole", updates |-> updates]
             ELSE IF ~req[i].json
                  THEN [err |-> "ErrMalformedJSON", updates |-> updates]
             ELSE parseParts(req, i + 1,
                             Append(updates, [role |-> role,
                                              version |-> req[i].version]))

RECURSIVE appendUpdates(_, _, _)
appendUpdates(rows, updates, i) ==
    IF i > Len(updates) THEN [err |-> Nil, rows |-> rows]
    ELSE IF updates[i].version <= Current(rows[updates[i].role])
         THEN [err |-> "ErrOldVersion", rows |-> rows]
    ELSE appendUpdates([rows EXCEPT ![updates[i].role] =
                                       Append(@, updates[i].version)],
                       updates, i + 1)

\* store.UpdateMany(gun, updates): every update is stored or none is; fails:
\* the storage backend is out of order
storeUpdateMany(rows, updates, fails) ==
    LET a == appendUpdates(rows, updates, 1)
    IN  IF fails THEN [err |-> "StorageError", rows |-> rows]
        ELSE IF a.err # Nil THEN [err |-> a.err, rows |-> rows]
        ELSE a

\* a type test that no error of the store passes
OldVersionNeverMatches(err) == FALSE

\* err.(storage.ErrOldVersion)
IsOldVersion(err) == err = "ErrOldVersion"

\* what the environment of a request may do to it
UpdateFaults == {"none", "NoStorage", "NoCryptoService", "MultipartError",
                 "ValidationError", "StorageError"}

ContextFaults == {"NoStorage", "NoCryptoService", "MultipartError"}

\* a handler that hands each part to the store when it has decoded it
atomicUpdateHandlerPerPart(rows, req, fault) ==
    LET p == parseParts(req, 1, <<>>)
        u == storeUpdateMany(rows, p.updates, fault = "StorageError")
    IN  IF fault = "NoStorage"
        THEN [err |-> "ErrNoStorage", cause |-> fault, rows |-> rows]
        ELSE IF fault = "NoCryptoService"
        THEN [err |-> "ErrNoCryptoService", cause |-> fault, rows |-> rows]
        ELSE IF fault = "MultipartError"
        THEN [err |-> "ErrMalformedUpload", cause |-> fault, rows |-> rows]
        ELSE IF p.err # Nil
        THEN [err |-> p.err, cause |-> p.err, rows |-> u.rows]
        ELSE IF fault = "ValidationError"
        THEN [err |-> "ErrInvalidUpdate", cause |-> fault, rows |-> u.rows]
        ELSE IF u.err # Nil
        THEN [err |-> IF IsOldVersion(u.err) THEN "ErrOldVersion"
                      ELSE "ErrUpdating",
              cause |-> u.err, rows |-> u.rows]
        ELSE [err |-> Nil, cause |-> Nil, rows |-> u.rows]

\* atomicUpdateHandler: the error it returns, the error behind it and the
\* rows of the store when it has returned
atomicUpdateHandler(rows, req, fault) ==
    LET p == parseParts(req, 1, <<>>)
        u == storeUpdateMany(rows, p.updates, fault = "StorageError")
    IN  IF fault = "NoStorage"
        THEN [err |-> "ErrNoStorage", cause |-> fault, rows |-> rows]
        ELSE IF fault = "NoCryptoService"
        THEN [err |-> "ErrNoCryptoService", cause |-> fault, rows |-> rows]
        ELSE IF fault = "MultipartError"
        THEN [err |-> "ErrMalformedUpload", cause |-> fault, rows |-> rows]
        ELSE IF p.err # Nil
        THEN [err |-> p.err, cause |-> p.err, rows |-> rows]
        ELSE IF fault = "ValidationError"
        THEN [err |-> "ErrInvalidUpdate", cause |-> fault, rows |-> rows]
        ELSE IF u.err # Nil
        THEN [err |-> IF IsOldVersion(u.err) THEN "ErrOldVersion"
                      ELSE "ErrUpdating",
              cause |-> u.err, rows |-> rows]
        ELSE [err |-> Nil, cause |-> Nil, rows |-> u.rows]

AtomicUpdateHandler(req, fault) ==
    /\ pc = "idle"
    /\ LET h == atomicUpdateHandler(remote, req, fault)
       IN  /\ remote' = h.rows
           /\ ReturnVal("AtomicUpdate", req, NoVal, h.err, h.cause)
    /\ UNCHANGED <<cache, changelist, certificateStore, caStore, rootKeyStore,
                   tufRepo, pub, vin, vout>>

UpdateInit ==
    /\ remote = NoRows
    /\ cache = NoFiles
    /\ changelist = <<>>
    /\ certificateStore = {}
    /\ caStore = {}
    /\ rootKeyStore = [pass |-> "none", linked |-> FALSE]
    /\ tufRepo = NewTufRepo
    /\ pc = "idle"
    /\ pub = NewPub(<<>>)
    /\ local = NoLocal
    /\ ret = NoRet
    /\ cause = Nil
    /\ vin = NoValidateIn
    /\ vout = NoValidateOut

NextUpdate ==
    \/ /\ pc = "idle"
       /\ \E req \in Uploads, fault \in UpdateFaults : AtomicUpdateHandler(req, fault)
    \/ CallerContinues

SpecUpdate == UpdateInit /\ [][NextUpdate]_vars

(***************************************************************************)
(* Publish with a connection that may drop between two PUTs: stores,       *)
(* signer and callback work, the remote answers every GET and the PUT of   *)
(* root, and the PUT of targets or of snapshot may fail. The caller goes   *)
(* on: every call runs to its return and Publish is called again and       *)
(* again.                                                                  *)
(***************************************************************************)
NextRetry ==
    \/ \E p \in KeyPassphrases : GenRootKey(p, TRUE, TRUE)
    \/ Initialize("none", TRUE, TRUE)
    \/ \E n \in TargetNames, m \in Metas : AddTarget(n, m, Nil)
    \/ PublishBootstrapClient(Nil)
    \/ PublishBootstrapRepo(Nil, TRUE)
    \/ PublishUpdate(Nil)
    \/ PublishApply(Nil)
    \/ \E p \in KeyPassphrases : PublishSignRoot([pass |-> p, err |-> Nil], TRUE)
    \/ PublishSign("none")
    \/ PublishPutRoot(TRUE, Nil)
    \/ \E e \in TransportErrors : PublishPutTargets(e)
    \/ \E e \in TransportErrors : PublishPutSnapshot(e)
    \/ CallerContinues

SpecRetry ==
    /\ Init
    /\ [][NextRetry]_vars
    /\ WF_vars(NextRetry)
    /\ SF_vars(PublishBootstrapClient(Nil))


(***************************************************************************)
(* Properties of Publish.                                                  *)
(***************************************************************************)
\* a call of Publish has returned
PublishReturned == pc = "done" /\ ret.op = "Publish"

\* the sequences of PUTs a Publish may have issued so far
PutOrders(updateRoot) ==
    IF updateRoot
    THEN {<<>>, <<"root">>, <<"root", "targets">>, <<"root", "targets", "snapshot">>}
    ELSE {<<>>, <<"targets">>, <<"targets", "snapshot">>}

\* C1: after a Publish that returns success the changelist is empty (so that a
\* Publish issued right after it replays no entry).
C1_ChangelistEmptyAfterSuccess ==
    (PublishReturned /\ ret.err = Nil) => changelist = <<>>

\* C2: a Publish that returns an error leaves the changelist, entries and
\* order, as it was at the call, and the error it returns is the error the
\* failing step raised (NotInitialized when there is neither a remote root
\* nor a local cached root).
C2_ErrorKeepsChangelistAndError ==
    (PublishReturned /\ ret.err # Nil) =>
        /\ changelist = pub.clAtCall
        /\ \/ ret.err = cause
           \/ /\ ret.err = "ErrRepoNotInitialized"
              /\ pub.notFound
              /\ cache.root.kind = "none"

\* C3: within one Publish no PUT is issued before targets and snapshot (and
\* root, if it is uploaded) are signed and serialized; the PUTs come in the
\* order root (only if updateRoot), targets, snapshot; timestamp is never
\* uploaded; after a PUT failed no further PUT is issued.
C3_PutOrder ==
    /\ pub.puts \in PutOrders("root" \in Range(pub.puts))
    /\ "root" \in Range(pub.puts) => pub.updateRoot
    /\ (pub.updateRoot /\ pub.puts # <<>>) => pub.puts[1] = "root"
    /\ "timestamp" \notin Range(pub.puts)
    /\ pub.puts # <<>> => pc \in {"puttargets", "putsnapshot", "done"}
    /\ pc \in {"putroot", "puttargets", "putsnapshot"} =>
          /\ local.targetsJSON.kind = "targets"
          /\ local.snapshotJSON.kind = "snapshot"
          /\ local.snapshotJSON.tbody = local.targetsJSON.body
          /\ pub.updateRoot => (local.root.kind = "root" /\ local.root.sigs # {})
    /\ pub.putFailed => pc = "done"

C3_Witness ==
    /\ PublishReturned
    /\ pub.putFailed
    /\ pub.puts = <<"root", "targets">>
    /\ remote.root.kind = "root"
    /\ remote.targets.kind = "none"

\* C4: a successful Publish uploads targets and snapshot always, and root if
\* and only if the remote had no root (the local cache was loaded) or root
\* was dirty or near expiry: three PUTs with root, two without.
C4_UploadedRoles ==
    (PublishReturned /\ ret.err = Nil) =>
        /\ Range(pub.puts) =
              {"targets", "snapshot"}
                 \cup (IF pub.notFound \/ pub.nearOrDirty THEN {"root"} ELSE {})
        /\ Len(pub.puts) = IF pub.notFound \/ pub.nearOrDirty THEN 3 ELSE 2
        /\ pub.notFound => pub.loadedCache

C4_Witness ==
    /\ PublishReturned
    /\ ret.err = Nil
    /\ pub.puts = <<"targets", "snapshot">>
    /\ pub.clAtCall = <<>>
    /\ ~pub.notFound

\* C5: in every Publish the passphrase callback is invoked at most once, and
\* only when root is dirty or near expiry.
C5_PassphraseAtMostOnce ==
    /\ pub.passCalls <= 1
    /\ pub.passCalls = 1 => pub.nearOrDirty
    /\ (PublishReturned /\ ret.err = Nil /\ ~pub.nearOrDirty) => pub.passCalls = 0

C5_Witness ==
    /\ PublishReturned
    /\ ret.err = Nil
    /\ pub.passCalls = 1
    /\ pub.nearOrDirty

\* C6: when the passphrase callback returns an error, Publish returns an
\* error, has issued no PUT, and the changelist is as it was at the call.
C6_CallbackError ==
    pub.passErr =>
        /\ PublishReturned
        /\ ret.err # Nil
        /\ pub.puts = <<>>
        /\ changelist = pub.clAtCall

C6_Witness ==
    /\ PublishReturned
    /\ pub.passErr
    /\ changelist # <<>>

\* C7: on a Publish that signs root again, a wrong passphrase makes Publish
\* return an error of kind BadPassphrase, with no PUT issued and the
\* changelist as it was at the call.
C7_BadPassphraseKind ==
    (PublishReturned /\ cause = "BadPassphrase") =>
        /\ ret.err = "BadPassphrase"
        /\ pub.puts = <<>>
        /\ changelist = pub.clAtCall

\* C8: when bootstrapClient fails with an error other than not-found, Publish
\* returns that error; it has not loaded the local cache, has not applied the
\* changelist and has issued no PUT.
C8_BootstrapErrorAborts ==
    pub.bootFail =>
        /\ PublishReturned
        /\ ret.err # Nil
        /\ ret.err # "ErrMetaNotFound"
        /\ ret.err = cause
        /\ ~pub.loadedCache
        /\ ~pub.applied
        /\ pub.puts = <<>>

C8_Witness ==
    /\ PublishReturned
    /\ pub.bootFail
    /\ ret.err = "UntrustedRoot"
    /\ cache.root.kind = "root"
    /\ changelist # <<>>

\* C9: Publish returns NotInitialized exactly when there is neither a remote
\* root nor a local cached root; any other failure of loading the local cache
\* is returned with its own kind.
C9_NotInitializedExactly ==
    PublishReturned =>
        /\ ret.err = "ErrRepoNotInitialized"
              <=> (pub.notFound /\ cache.root.kind = "none")
        /\ (pub.loadedCache /\ ret.err # Nil /\ cache.root.kind # "none") =>
              ret.err = cause

(***************************************************************************)
(* validateRoot alone: a root, the two certificate stores and the GUN are  *)
(* drawn, and validateRoot is applied to them.                             *)
(***************************************************************************)
KeySeqs == UNION {[1..n -> KeyIds] : n \in 0..MaxKeyIDs}

ValidateInit ==
    /\ remote = NoFiles
    /\ cache = NoFiles
    /\ changelist = <<>>
    /\ certificateStore = {}
    /\ caStore = {}
    /\ rootKeyStore = [pass |-> "none", linked |-> FALSE]
    /\ tufRepo = NewTufRepo
    /\ pc = "idle"
    /\ pub = NewPub(<<>>)
    /\ local = NoLocal
    /\ ret = NoRet
    /\ cause = Nil
    /\ vin \in [root : {RootFile(ks, sg, FALSE) :
                          ks \in KeySeqs, sg \in SUBSET {"k1", "k2", "k3"}},
                cs : SUBSET Fingerprints,
                ca : SUBSET CAs,
                gun : Guns]
    /\ vout = NoValidateOut

ValidateRootStep ==
    /\ ~vout.done
    /\ LET v == validateRoot(vin.root, vin.cs, vin.ca, vin.gun)
       IN  vout' = [done |-> TRUE, err |-> v.err, certs |-> v.certs]
    /\ UNCHANGED <<repoVars, vin>>

ValidateNext == ValidateRootStep

SpecValidate == ValidateInit /\ [][ValidateNext]_vars

\* the key ids of r a root verifier accepts by the rule: the leaf is pinned
\* (its fingerprint is in cs and its CommonName is gun) or chains to a CA of ca
\* for gun
AcceptedByRule(r, cs, ca, gun) ==
    {k \in Range(r.keyids) :
        /\ CertOf(k).parses
        /\ \/ CertOf(k).fp \in cs /\ CertOf(k).cn = gun
           \/ CertOf(k).issuer \in ca /\ CertOf(k).cn = gun}

\* C10: validateRoot accepts a root-role key id if and only if its leaf is
\* pinned (fingerprint in the certificate store and CommonName = GUN) or
\* chains to a CA of the CA store for the GUN; a pinned fingerprint with
\* another CommonName is not accepted as pinned; with no accepted key the
\* root is rejected.
C10_AcceptedSet ==
    vout.done =>
        /\ vout.certs = AcceptedByRule(vin.root, vin.cs, vin.ca, vin.gun)
        /\ vout.certs = {} => vout.err = "UntrustedRoot"
        /\ vout.err = Nil => vout.certs \cap vin.root.sigs # {}

C10_Witness ==
    /\ vout.done
    /\ vin.gun = GUN
    /\ vin.ca = {}
    /\ vin.root.keyids = <<"k2", "k1">>
    /\ {"f1", "f2"} \subseteq vin.cs
    /\ vout.certs = {"k1"}
    /\ vout.err = Nil

\* C11: validateRoot accepts a root only if at least one signature that
\* verifies was made by a key of the accepted set; a root whose valid
\* signatures all come from key ids outside the accepted set is rejected,
\* also when its body lists those keys.
C11_SignedByAcceptedKey ==
    (vout.done /\ vin.root.sigs
                    \cap AcceptedByRule(vin.root, vin.cs, vin.ca, vin.gun) = {})
        => vout.err # Nil

\* the root lists k1 (pinned) and k2 (not accepted), and only k2 signed it
C11_Witness ==
    /\ vout.done
    /\ vin.gun = GUN
    /\ vin.ca = {}
    /\ vin.cs = {"f1"}
    /\ vin.root.keyids = <<"k1", "k2">>
    /\ vin.root.sigs = {"k2"}
    /\ vout.certs = {"k1"}
    /\ vout.err = "ErrRoleThreshold"

(***************************************************************************)
(* Properties of ListTargets and GetTargetByName.                          *)
(***************************************************************************)
\* a call of ListTargets or GetTargetByName has returned
FetchReturned == pc = "done" /\ ret.op \in FetchOps

\* the remote holds a root no signature of which was made by a key the rule
\* accepts for this repository
RemoteRootFailsVerification ==
    /\ remote.root.kind = "root"
    /\ remote.root.sigs
          \cap AcceptedByRule(remote.root, certificateStore, caStore, GUN) = {}

\* C12: when the remote root fails verification, ListTargets (and
\* GetTargetByName) returns an error and leaves the in-memory role graph, the
\* certificate stores, the local cache and the changelist as they were.
C12_FailedVerificationChangesNothing ==
    [][(/\ pc = "idle"
        /\ RemoteRootFailsVerification
        /\ \/ pc' \in {"listupdate", "getupdate"}
           \/ pc' = "done" /\ ret'.op \in FetchOps)
       => /\ pc' = "done"
          /\ ret'.err # Nil
          /\ ret'.val = NoVal
          /\ UNCHANGED <<tufRepo, certificateStore, caStore, rootKeyStore,
                         cache, changelist, remote>>]_vars

\* ListTargets met a foreign root on the remote after a Publish had filled
\* the role graph, the cache and the changelist
C12_Witness ==
    /\ FetchReturned
    /\ ret.op = "ListTargets"
    /\ ret.err # Nil
    /\ cause # "Transport"
    /\ RemoteRootFailsVerification
    /\ tufRepo.targets.kind = "targets"
    /\ cache.root.kind = "root"
    /\ changelist # <<>>

\* the remote holds a root with a verifying signature by an accepted key, and
\* targets and snapshot that agree
RemoteVerifies ==
    /\ remote.root.kind = "root"
    /\ remote.root.sigs
          \cap AcceptedByRule(remote.root, certificateStore, caStore, GUN) # {}
    /\ remote.targets.kind = "targets"
    /\ remote.snapshot.kind = "snapshot"
    /\ remote.snapshot.tbody = remote.targets.body

\* C13: ListTargets and GetTargetByName hand out target records only after
\* the root was fetched and verified and then the remaining roles were
\* fetched and verified, in this order and within the call; when a step
\* fails they return an error and no record, and never answer from the cache
\* or from unverified data; GetTargetByName(n) returns a record exactly when
\* n is in the trusted targets body and an error otherwise.
C13_RecordsOnlyAfterVerification ==
    /\ pub.rolesFetched => pub.rootFetched
    /\ pc \in {"listupdate", "getupdate"} => (pub.rootFetched /\ ~pub.rolesFetched)
    /\ FetchReturned =>
          /\ ret.err # Nil => ret.val = NoVal
          /\ ret.val # NoVal =>
                /\ ret.err = Nil
                /\ pub.rootFetched /\ pub.rolesFetched
                /\ RemoteVerifies
          /\ (ret.op = "ListTargets" /\ ret.err = Nil) =>
                /\ ret.val.kind = "list"
                /\ \A n \in TargetNames :
                      remote.targets.body[n] # Absent
                         <=> \E t \in ret.val.targets : t.name = n
                /\ \A t \in ret.val.targets : t.meta = remote.targets.body[t.name]
          /\ (ret.op = "GetTargetByName" /\ pub.rolesFetched) =>
                /\ ret.err = Nil <=> remote.targets.body[ret.arg] # Absent
                /\ ret.err = Nil =>
                      ret.val = [kind |-> "target", name |-> ret.arg,
                                 meta |-> remote.targets.body[ret.arg]]

\* GetTargetByName answered from the remote while the cache holds another
\* targets body
C13_Witness ==
    /\ FetchReturned
    /\ ret.op = "GetTargetByName"
    /\ ret.val.kind = "target"
    /\ cache.targets.kind = "targets"
    /\ cache.targets.body # remote.targets.body

\* root has a verifying signature by a key the rule accepts for this
\* repository: it passes the root verifier
PassesRootVerifier(root) ==
    /\ root.kind = "root"
    /\ root.sigs \cap AcceptedByRule(root, certificateStore, caStore, GUN) # {}

\* C14: every root a successful operation installs in the in-memory role
\* graph or uploads has passed the root verifier, also on the first publish,
\* where the root comes from the local cache.
C14_InstalledRootsVerified ==
    /\ (pc = "done" /\ ret.err = Nil /\ ret.op \in FetchOps \cup {"Publish"}) =>
          PassesRootVerifier(tufRepo.root)
    /\ (PublishReturned /\ ret.err = Nil /\ "root" \in Range(pub.puts)) =>
          PassesRootVerifier(remote.root)

\* C15: once a fetch has trusted version v of a role, a later fetch by the
\* same repository to which the remote returns a lower version of that role
\* fails with Rollback.
C15_RollbackRejected ==
    (FetchReturned /\ VersionOf(remote.targets) < pub.trusted) =>
        ret.err = "Rollback"

ChangeEntries ==
    {NewTufChange(a, "targets", "target", n, m) :
        a \in {"create", "update"}, n \in TargetNames, m \in Contents}
    \cup {NewTufChange("delete", "targets", "target", n, Nil) : n \in TargetNames}

Changelists == UNION {[1..k -> ChangeEntries] : k \in 0..MaxChanges}

ApplyInit ==
    /\ remote = NoFiles
    /\ cache = NoFiles
    /\ changelist = <<>>
    /\ certificateStore = {}
    /\ caStore = {}
    /\ rootKeyStore = [pass |-> "none", linked |-> FALSE]
    /\ tufRepo = NewTufRepo
    /\ pc = "idle"
    /\ pub = NewPub(<<>>)
    /\ local = NoLocal
    /\ ret = NoRet
    /\ cause = Nil
    /\ vin \in [body : [TargetNames -> Contents \cup {Absent}], cl : Changelists]
    /\ vout = [done |-> FALSE, body |-> EmptyBody]

ApplyStep ==
    /\ ~vout.done
    /\ vout' = [done |-> TRUE, body |-> applyChangelist(vin.body, vin.cl, 1)]
    /\ UNCHANGED <<repoVars, vin>>

ApplyNext == ApplyStep

SpecApply == ApplyInit /\ [][ApplyNext]_vars

\* the index of the last entry of cl for name n, 0 when there is none
LastEntryFor(cl, n) ==
    LET idx == {i \in 1..Len(cl) : cl[i].key = n}
    IN  IF idx = {} THEN 0 ELSE CHOOSE i \in idx : \A j \in idx : j <= i

\* C18: the changelist is applied in insertion order, each entry seeing what
\* the earlier ones did (create and update put or overwrite the target,
\* delete removes it, a missing name is no error), so that the body is a
\* function of the starting body and the entry sequence: for every name the
\* last entry for it decides, and a name without entry keeps its value.
C18_AppliedInInsertionOrder ==
    vout.done =>
        \A n \in TargetNames :
            LET i == LastEntryFor(vin.cl, n)
            IN  vout.body[n] =
                   IF i = 0 THEN vin.body[n]
                   ELSE IF vin.cl[i].action = "delete" THEN Absent
                   ELSE vin.cl[i].payload

\* a delete of a published name followed by a create of it, and a delete of
\* a name that is not there
C18_Witness ==
    /\ vout.done
    /\ Len(vin.cl) = 2
    /\ vin.cl[1].action = "delete" /\ vin.cl[1].key = "a"
    /\ vin.cl[2].action = "create" /\ vin.cl[2].key = "a"
    /\ vin.body["a"] = "m1"
    /\ vin.body["b"] = Absent
    /\ vout.body["a"] = "m2"

\* cl without the entries that repeat the entry right before them
RECURSIVE DropRepeats(_)
DropRepeats(cl) ==
    IF Len(cl) <= 1 THEN cl
    ELSE LET front == DropRepeats(SubSeq(cl, 1, Len(cl) - 1))
         IN  IF cl[Len(cl)] = cl[Len(cl) - 1] THEN front
             ELSE Append(front, cl[Len(cl)])

\* every entry of cl is a create of a target that body holds with that content
AlreadyPublished(body, cl) ==
    \A i \in 1..Len(cl) :
        cl[i].action = "create" /\ body[cl[i].key] = cl[i].payload

\* C19: AddTarget(x) twice with the same content and then Publish gives the
\* targets body a single AddTarget(x) gives; applying a create again that
\* was published already, in a Publish that is tried again, leaves the
\* targets body as it is; and that body is what a successful Publish
\* uploads.
C19_CreateIsIdempotent ==
    /\ [][(pc = "apply" /\ pc' = "signroot")
          => /\ tufRepo'.targets.body =
                   applyChangelist(tufRepo.targets.body, DropRepeats(changelist), 1)
             /\ AlreadyPublished(tufRepo.targets.body, changelist) =>
                   tufRepo'.targets.body = tufRepo.targets.body]_vars
    /\ []((PublishReturned /\ ret.err = Nil) =>
             /\ remote.targets.body = tufRepo.targets.body
             /\ \A i \in 1..Len(changelist) :
                   (\A j \in 1..Len(changelist) : changelist[j] = changelist[i]) =>
                       remote.targets.body[changelist[i].key] = changelist[i].payload)

\* the same target was added twice and published, to a remote that had a
\* root already
C19_Witness ==
    /\ PublishReturned
    /\ ret.err = Nil
    /\ ~pub.notFound
    /\ Len(changelist) = 2
    /\ changelist[1] = changelist[2]
    /\ changelist[1].key = "a"
    /\ remote.targets.body["a"] = changelist[1].payload
    /\ remote.targets.body["b"] = Absent

\* C23: while one instance executes Publish for a GUN, no other instance on
\* the same base directory appends to the changelist of that GUN: between
\* the call and the return of Publish the changelist stays as it is, and
\* what Publish applies is the changelist as it was at the call.
C23_ChangelistOwnedDuringPublish ==
    /\ [][(pc \in PublishSteps) => (changelist' = changelist)]_vars
    /\ [](pub.applied => pub.replayed = Len(pub.clAtCall))

\* C24: when two instances publish for one GUN concurrently, at most one
\* wins (no published target is lost again); the loser's Publish returns the
\* remote's rejection of its update, with its changelist as it was, and a
\* Publish that succeeds leaves a collection with the staged targets of
\* both.
C24_LoserGetsConflict ==
    /\ []((PublishReturned /\ ret.err # Nil /\ remote.root.kind = "root") =>
             /\ ret.err = "ErrOldVersion"
             /\ changelist = pub.clAtCall)
    /\ []((PublishReturned /\ ret.err = Nil) =>
             \A i \in 1..Len(changelist) :
                 remote.targets.body[changelist[i].key] = changelist[i].payload)
    /\ [][\A n \in TargetNames :
            (remote.targets.kind = "targets" /\ remote.targets.body[n] # Absent)
               => remote'.targets.body[n] # Absent]_vars

\* C25: a Publish that returned the error of a PUT after an earlier PUT of
\* the same call was stored is followed, when Publish is called again, by a
\* Publish that returns no error with the remote holding a snapshot that
\* matches its targets and every staged target in them.
C25_InterruptedPublishRetries ==
    (PublishReturned /\ pub.putFailed /\ Len(pub.puts) > 1)
       ~> (/\ PublishReturned
           /\ ret.err = Nil
           /\ remote.root.kind = "root"
           /\ RemoteConsistent
           /\ \A i \in 1..Len(changelist) :
                 remote.targets.body[changelist[i].key] = changelist[i].payload)

(***************************************************************************)
(* Properties of rootHandler.ServeHTTP.                                    *)
(***************************************************************************)
ServeReturned == pc = "done" /\ ret.op = "ServeHTTP"

(***************************************************************************)
(* Properties of the server's update handler.                              *)
(***************************************************************************)
UpdateReturned == pc = "done" /\ ret.op = "AtomicUpdate"

\* the versions a request carries for a role, in the order of its parts
VersionsFor(req, r) ==
    LET ofRole(p) == TrimSuffix(p.name, ".json") = r
        sel == SelectSeq(req, ofRole)
    IN  [i \in 1..Len(sel) |-> sel[i].version]

AllApplied(rows, req) == [r \in ValidRoles |-> rows[r] \o VersionsFor(req, r)]

BadPartError(p) ==
    IF TrimSuffix(p.name, ".json") = "" THEN "ErrNoFilename"
    ELSE IF TrimSuffix(p.name, ".json") \notin ValidRoles THEN "ErrInvalidRole"
    ELSE IF ~p.json THEN "ErrMalformedJSON"
    ELSE Nil

\* the first part of a request that is refused (0: none, or a broken part
\* comes before it)
FirstBad(req) ==
    LET bad == {i \in 1..Len(req) :
                  /\ \A j \in 1..i : req[j].kind = "part"
                  /\ BadPartError(req[i]) # Nil
                  /\ \A j \in 1..(i - 1) : BadPartError(req[j]) = Nil}
    IN  IF bad = {} THEN 0 ELSE CHOOSE i \in bad : TRUE

\* a request of readable parts, one of which is not newer than the store's
\* version of its role or than an earlier part for the role
Stale(rows, req) ==
    /\ \A i \in 1..Len(req) : req[i].kind = "part"
    /\ \E i \in 1..Len(req) :
          LET r == TrimSuffix(req[i].name, ".json")
          IN  \/ req[i].version <= Current(rows[r])
              \/ \E j \in 1..(i - 1) :
                    /\ TrimSuffix(req[j].name, ".json") = r
                    /\ req[j].version >= req[i].version

\* C26: a request to the update handler is applied whole or not at all.
\* When the handler returns an error (or the request ends in a broken part)
\* the store is as it was; when it returns none, the versions of all parts
\* were appended to their roles. A request whose parts can all be read and
\* of which one has an empty file name, a role that is not valid or a body
\* that is not JSON gets the error of the first such part, and one that
\* fails validation gets the invalid-update error.
C26_UpdateIsAtomic ==
    [][UpdateReturned' =>
          /\ (ret'.err # Nil) => (remote' = remote)
          /\ (ret'.err = Nil) => (remote' = AllApplied(remote, ret'.arg))
          /\ (FirstBad(ret'.arg) # 0 /\ cause' \notin ContextFaults) =>
                ret'.err = BadPartError(ret'.arg[FirstBad(ret'.arg)])
          /\ (cause' = "ValidationError") => (ret'.err = "ErrInvalidUpdate")]_vars

\* a request of two parts is refused for its second part, and its first part
\* was newer than what the store holds
C26_Witness ==
    /\ UpdateReturned
    /\ Len(ret.arg) = 2
    /\ FirstBad(ret.arg) = 2
    /\ ret.err = "ErrMalformedJSON"
    /\ ret.arg[1].version > Current(remote[TrimSuffix(ret.arg[1].name, ".json")])

C28_StoresHoldFilteredCerts ==
    /\ [](caStore \cap certificateStore = {})
    /\ [](\A c \in caStore \cup certificateStore :
             X509(c).SignatureAlgorithm \notin SHA1Algorithms)
    /\ [](\A c \in caStore : X509(c).IsCA)
    /\ [][/\ \A c \in caStore' \ caStore :
               /\ vin.now < X509(c).NotAfter
               /\ X509(c).IsCA /\ X509(c).BasicConstraintsValid
               /\ X509(c).SubjectKeyId
          /\ \A c \in certificateStore' \ certificateStore :
               vin.now < X509(c).NotAfter /\ ~X509(c).IsCA]_vars
    /\ []((pc = "done" /\ ret.op = "AddCert"
             /\ ret.err = "certificate validation failed")
            => ret.arg.cert \notin StoreOf(ret.arg.store))
    /\ []((pc = "done" /\ ret.op = "GetCertificateBySKID")
            => (ret.val.found <=> ret.arg.cert \in StoreOf(ret.arg.store)))
    /\ []((pc = "done" /\ ret.op = "validateRoot" /\ ret.err = Nil)
            => \/ CertOf(ret.arg).fp \in certificateStore
               \/ CertOf(ret.arg).issuer \in caStore)

\* the trust directory holds a SHA-1 leaf, an expired leaf and a CA without
\* key id next to a leaf and a CA that the stores took, and a root is
\* accepted on the stored leaf
C28_Witness ==
    /\ {"f2", "f4", "ca3"} \subseteq vin.dir
    /\ certificateStore = {"f1"}
    /\ caStore = {"ca1"}
    /\ pc = "done" /\ ret.op = "validateRoot" /\ ret.err = Nil /\ ret.arg = "k1"

\* C29: ServeHTTP calls the wrapped handler only after Authorize returned no
\* error. A request Authorize refuses is answered with 401 and nothing else,
\* and the handler is not called for it; a request whose handler returns an
\* error is answered with the status of that error; no request gets more
\* than one error response.
C29_HandlerOnlyAfterAuthorize ==
    /\ [][(pc' = "handler") => (pc = "idle" /\ local'.authErr = Nil)]_vars
    /\ [](ServeReturned =>
            /\ (ret.val.calls > 0) => (ret.val.authErr = Nil)
            /\ (ret.val.authErr # Nil) =>
                  /\ ret.val.calls = 0
                  /\ ret.val.w = <<[by |-> "http.Error", status |-> 401]>>
            /\ (ret.val.result # NoHTTPError) =>
                  ret.val.w = <<[by |-> "http.Error",
                                 status |-> ret.val.result.HTTPStatus]>>
            /\ Cardinality({i \in 1..Len(ret.val.w) :
                               ret.val.w[i].by = "http.Error"}) <= 1)

\* one request was refused by Authorize
C29_Witness ==
    /\ ServeReturned
    /\ ret.val.authErr = "InsufficientScope"
    /\ ret.arg.method = "POST"

AddOps == {"AddCert", "AddCertFromPEM", "AddCertFromFile"}

\* the three maps of the store s agree
IndexesAgree(s) ==
    /\ DOMAIN s.fingerprintMap = DOMAIN s.fileMap
    /\ \A n \in DOMAIN s.nameMap : \A i \in 1..Len(s.nameMap[n]) :
          /\ s.nameMap[n][i] \in DOMAIN s.fingerprintMap
          /\ s.fingerprintMap[s.nameMap[n][i]].RawSubject = n
    /\ \A k \in DOMAIN s.fingerprintMap :
          LET fpList == s.nameMap[s.fingerprintMap[k].RawSubject]
          IN  Cardinality({i \in 1..Len(fpList) : fpList[i] = k}) = 1
    /\ \A k \in DOMAIN s.fingerprintMap :
          fingerprintCert(s.fingerprintMap[k]) = k

\* C31: an AddCert, AddCertFromPEM, AddCertFromFile or RemoveCert that
\* returns an error leaves the three maps of the store as they were.
C31_FailedCallLeavesStore ==
    [][(pc' = "done" /\ ret'.op \in AddOps \cup {"RemoveCert"} /\ ret'.err # Nil)
          => certificateStore' = certificateStore]_vars

\* C32: after any adds and removes the three maps of a store agree:
\* fingerprintMap and fileMap have the same keys, every fingerprint nameMap
\* lists under a subject is a key of fingerprintMap whose certificate has
\* that subject, and every key of fingerprintMap is listed once under its
\* subject. A certificate RemoveCert was called with is in no map when the
\* call is back, the lookups return what fingerprintMap holds, a certificate
\* comes into fingerprintMap only through an add of it, and an add of a
\* certificate the store does not hold, that its validator accepts and
\* whose file could be written, succeeds.
C32_IndexesAgree ==
    /\ [](IndexesAgree(certificateStore))
    /\ [][(pc' = "done" /\ ret'.op = "RemoveCert" /\ ret'.arg.cert # NilCert)
            => /\ fingerprintCert(ret'.arg.cert)
                     \notin DOMAIN certificateStore'.fingerprintMap
               /\ ret'.arg.cert \notin GetCertificates(certificateStore')]_vars
    /\ []((pc = "done" /\ ret.op = "GetCertificates")
            => ret.val.certs = GetCertificates(certificateStore))
    /\ []((pc = "done" /\ ret.op = "GetCertificateBySKID")
            => ret.val.certs = GetCertificates(certificateStore) \cap {ret.arg.cert})
    /\ [][\A k \in DOMAIN certificateStore'.fingerprintMap
                     \ DOMAIN certificateStore.fingerprintMap :
             /\ pc' = "done" /\ ret'.op \in AddOps
             /\ fingerprintCert(ret'.arg.cert) = k]_vars
    /\ [][(/\ pc' = "done" /\ ret'.op \in AddOps
           /\ ret'.arg.cert # NilCert
           /\ fingerprintCert(ret'.arg.cert)
                 \notin DOMAIN certificateStore.fingerprintMap
           /\ X509FileStore_Validate(certificateStore, ret'.arg.cert, vin.now)
           /\ ret'.arg.saved)
            => /\ ret'.err = Nil
               /\ ret'.arg.cert \in GetCertificates(certificateStore')]_vars

\* a certificate that was removed has been added again, next to another
\* certificate of the same subject and one of another subject
C32_Witness ==
    /\ pc = "done" /\ ret.op = "AddCert" /\ ret.err = Nil
    /\ fingerprintCert(ret.arg.cert) = vout.removed
    /\ Len(certificateStore.nameMap[ret.arg.cert.RawSubject]) = 2
    /\ certificateStore.nameMap[ret.arg.cert.RawSubject][2] = vout.removed
    /\ DOMAIN certificateStore.fingerprintMap = IndexCerts

(***************************************************************************)
(* Properties of KeyNativeStore.Get                                        *)
(***************************************************************************)
GetReturned == pc = "done" /\ ret.op = "Get"

\* Get is in its loop, at its last line or back: vout.calls are its calls
InGet == pc \in {"PassRetriever", "EncryptPrivateKey"} \/ GetReturned

\* the i-th call of the retriever gave a passphrase
GavePassphrase(i) == ~vout.calls[i].giveup /\ vout.calls[i].err = Nil

\* C33: Get terminates whatever the retriever returns: a Get that reached
\* its loop comes back; the retriever is called with the attempts 0, 1, 2,
\* ... in this order and at most 5 times; a call that gives up is the last
\* one and Get returns the give-up error; and when all the calls failed
\* without giving up, there were 5 of them and Get returns the
\* exceeded-attempts error.
C33_GetTerminates ==
    /\ (pc = "PassRetriever") ~> GetReturned
    /\ [](\A i \in 1..Len(vout.calls) :
             /\ vout.calls[i].attempts = i - 1
             /\ vout.calls[i].keyID = vout.calls[1].keyID)
    /\ [](Len(vout.calls) <= 5)
    /\ [](InGet => \A i \in 1..Len(vout.calls) :
             vout.calls[i].giveup
                => /\ i = Len(vout.calls)
                   /\ GetReturned /\ ret.err = ErrGivenUp)
    /\ []((/\ GetReturned /\ Len(vout.calls) > 0
           /\ \A i \in 1..Len(vout.calls) :
                 ~vout.calls[i].giveup /\ vout.calls[i].err # Nil)
            => Len(vout.calls) = 5 /\ ret.err = ErrExceeded)

\* the retriever failed five times and Get came back with the
\* exceeded-attempts error
C33_Witness ==
    /\ GetReturned /\ ret.err = ErrExceeded
    /\ Len(vout.calls) = 5
    /\ \A i \in 1..Len(vout.calls) :
          ~vout.calls[i].giveup /\ vout.calls[i].err # Nil

\* C34: a call of the retriever that returns a passphrase, with no error and
\* without giving up, is the last call of that Get, on whichever attempt it
\* comes, and Get then returns the key encrypted under that passphrase and
\* neither the exceeded-attempts nor the give-up error.
C34_PassphraseEndsAsking ==
    InGet => \A i \in 1..Len(vout.calls) :
        GavePassphrase(i)
           => /\ i = Len(vout.calls)
              /\ pc # "PassRetriever"
              /\ GetReturned
                   => /\ ret.err \notin {ErrGivenUp, ErrExceeded}
                      /\ ret.err = Nil
                           => ret.val = EncryptPrivateKey(ret.arg,
                                            vout.calls[i].role, "",
                                            vout.calls[i].passphrase)

(***************************************************************************)
(* Properties of the default passphrase store                              *)
(***************************************************************************)
\* C35: the passphrase store is a map from aliases to passphrases:
\* GetPassphrase(a) returns, with no error, the passphrase of the last
\* SetPassphrase for a, whatever was set for other aliases since, and the
\* empty string for an alias that was never set.
C35_PerAliasMap ==
    (pc = "done" /\ ret.op = "GetPassphrase")
       => /\ ret.err = Nil
          /\ ret.val.pass = IF ret.arg.alias \in DOMAIN vout.set
                            THEN vout.set[ret.arg.alias]
                            ELSE ""

\* C17: the repository offers RemoveTarget(name), which appends a delete
\* entry for the name (so that AddTarget(x); Publish; RemoveTarget(x);
\* Publish; ListTargets() gives a list without x): a caller that goes on
\* calling what the repository offers gets a delete entry staged.
C17_DeleteEntryStaged ==
    <>(\E i \in 1..Len(changelist) : changelist[i].action = "delete")

\* C20: Initialize, then Publish, then ListTargets with the local cache
\* cleared: each of them succeeds, and ListTargets returns the empty list.
\* (Nothing fails around the repository; no target was added while the
\* changelist is empty; the remote holds a snapshot once a Publish is
\* through.)
C20_InitializePublishList ==
    /\ (pc = "done" /\ ret.op = "Initialize") => ret.err = Nil
    /\ (PublishReturned /\ pub.notFound /\ cache.snapshot.kind = "snapshot") =>
          ret.err = Nil
    /\ (PublishReturned /\ ret.err = Nil) => remote.snapshot.kind = "snapshot"
    /\ (FetchReturned /\ ret.op = "ListTargets"
           /\ remote.snapshot.kind = "snapshot") =>
          /\ ret.err = Nil
          /\ changelist = <<>> => ret.val = [kind |-> "list", targets |-> {}]

\* ListTargets answered with the empty list from the remote alone
C20_Witness ==
    /\ FetchReturned
    /\ ret.op = "ListTargets"
    /\ ret.err = Nil
    /\ ret.val.targets = {}
    /\ changelist = <<>>
    /\ cache = NoFiles
    /\ certificateStore # {}

(***************************************************************************)
(* Properties of Initialize and GenRootKey.                                *)
(***************************************************************************)
\* a call of Initialize has returned success
InitializeSucceeded == pc = "done" /\ ret.op = "Initialize" /\ ret.err = Nil

\* C21: after Initialize returned success the root lists one root key and is
\* signed, the root certificate is in the certificate store, and signed
\* root, targets and snapshot are in the local cache, so that a following
\* Publish against a remote without root can load them.
C21_InitializeLeavesLoadableRepo ==
    InitializeSucceeded =>
        /\ CertOf(RootCertKey).fp \in certificateStore
        /\ cache.root.kind = "root"
        /\ Len(cache.root.keyids) = 1
        /\ cache.root.sigs # {}
        /\ cache.targets.kind = "targets"
        /\ cache.snapshot.kind = "snapshot"
        /\ bootstrapRepo(Nil).err = Nil

\* C22: Initialize and GenRootKey return an error whenever a local store
\* rejects one of their writes (certificate add, key link, encrypted root
\* key, root, targets or snapshot in the cache): neither reports success for
\* state that was not persisted.
C22_RejectedWritesAreReported ==
    /\ (pc = "done" /\ ret.op = "GenRootKey" /\ ret.err = Nil) =>
          rootKeyStore.pass # "none"
    /\ InitializeSucceeded =>
          /\ CertOf(RootCertKey).fp \in certificateStore
          /\ rootKeyStore.linked
          /\ IsFile(cache.root) /\ IsFile(cache.targets) /\ IsFile(cache.snapshot)

====
